---- MODULE Spec2Model ----
(***************************************************************************)
(* A model of cloud-builder's rclone process runner                        *)
(* (rclone/rclone_executor.py), the directory provisioner layered on it    *)
(* (rclone/rclone_operations.py), the ANSI scrubber (utils/ansi_utils.py)  *)
(* the read_remote_file and upload_file tools (mcp_tools/file_tools.py),   *)
(* sync_directory (mcp_tools/sync_tools.py), and the password decoder      *)
(* reveal and the profile reader get_remote_config                         *)
(* (rclone/rclone_decrypt_pass.py).                                        *)
(*                                                                         *)
(* Spec runs the tools and the provisioner over the runner; SpecCount      *)
(* counts calls and children over a sequence of calls; SpecScrub feeds     *)
(* strip_ansi_codes; SpecReveal feeds reveal; SpecProfile feeds            *)
(* get_remote_config; SpecConcurrent interleaves several callers of the    *)
(* provisioner; SpecTransfer runs sync_directory and upload_file.          *)
(*                                                                         *)
(* Text is a sequence of characters, each a one-character string.  Named   *)
(* tokens stand for characters a TLA+ string cannot hold: "ESC" is the     *)
(* byte 0x1B, "xFF" is a byte that is never valid UTF-8, "xC3" "xA9" are   *)
(* the two bytes of one non-ASCII character, and "REPL" is the replacement *)
(* character U+FFFD.  A byte sequence is a sequence over the same tokens.  *)
(***************************************************************************)
EXTENDS Integers, Sequences, FiniteSets, TLC

VARIABLES
    pc,            \* position inside execute_rclone_command
    call,          \* arguments of the running execute_rclone_command call
    child,         \* the child process of the running call
    locals,        \* stdout_bytes/stdout_str, stderr_str, returncode, pending exception
    result,        \* the dictionary the last execute_rclone_command call returned
    diagnostics_logged, \* execute_rclone_command._diagnostics_logged
    caller,        \* who called execute_rclone_command, and where it continues
    ens,           \* the running ensure_remote_directory_exists call
    tool,          \* the running read_remote_file call
    remoteDirs,    \* directories that exist on the remote
    hist,          \* observations used only to state properties
    counts,        \* calls returned and children started, over a sequence of calls
    scrub,         \* a text being built and passed through the ANSI scrubber
    rev,           \* an obscured password being built and passed to reveal
    prof,          \* a set of rclone.conf files and a get_remote_config call on them
    conc           \* callers that run ensure_remote_directory_exists at the same time

vars == <<pc, call, child, locals, result, diagnostics_logged, caller, ens, tool,
          remoteDirs, hist, counts, scrub, rev, prof, conc>>

\* the variables no step of the runner, the provisioner or the read tool touches
aux2 == <<prof, conc>>
aux == <<counts, scrub, rev, aux2>>

\* the variables of the runner, the provisioner and the read tool
main == <<pc, call, child, locals, result, diagnostics_logged, caller, ens, tool,
          remoteDirs, hist>>

----------------------------------------------------------------------------
(* Bounds *)

\* number of distinct remote directory paths
MaxPaths == 1

\* number of calls in a counted sequence of calls
MaxCalls == 3

\* characters of plain text, and escape sequences inserted into it, in one
\* input of the scrubber
MaxPlain == 3
MaxInserted == 2

\* number of places that hold an rclone.conf
MaxStores == 2

\* number of callers that run at the same time
MaxCallers == 3

----------------------------------------------------------------------------
(* Characters and text *)

ESC == "ESC"
BadByte == "xFF"
REPL == "REPL"
NL == "NL"
\* the backslash, the double quote and the backtick
BSL == "BSL"
DQUOTE == "DQUOTE"
BTICK == "BTICK"

\* None, as a value of a text-typed dictionary entry
None == <<"None">>

\* the characters of a string
Chars(s) == [i \in 1..Len(s) |-> SubSeq(s, i, i)]

\* the positions of t, in order
Positions(t) == [i \in 1..Len(t) |-> i]

UpperLetters == {"A","B","C","D","E","F","G","H","I","J","K","L","M",
                 "N","O","P","Q","R","S","T","U","V","W","X","Y","Z"}
LowerLetters == {"a","b","c","d","e","f","g","h","i","j","k","l","m",
                 "n","o","p","q","r","s","t","u","v","w","x","y","z"}

\* regex class [@-Z\\-_] : 0x40-0x5A and 0x5C-0x5F ("[" = 0x5B is not in it)
FeChars == UpperLetters \cup {"@", BSL, "]", "^", "_"}
\* regex class [0-?] : 0x30-0x3F
ParamChars == {"0","1","2","3","4","5","6","7","8","9",":",";","<","=",">","?"}
\* regex class [ -/] : 0x20-0x2F
InterChars == {" ","!",DQUOTE,"#","$","%","&","'","(",")","*","+",",","-",".","/"}
\* regex class [@-~] : 0x40-0x7E
FinalChars == UpperLetters \cup LowerLetters
                 \cup {"@","[",BSL,"]","^","_",BTICK,"{","|","}","~"}

LowerOf(c) ==
              CASE c = "A" -> "a" [] c = "B" -> "b" [] c = "C" -> "c" [] c = "D" -> "d"
                [] c = "E" -> "e" [] c = "F" -> "f" [] c = "G" -> "g" [] c = "H" -> "h"
                [] c = "I" -> "i" [] c = "J" -> "j" [] c = "K" -> "k" [] c = "L" -> "l"
                [] c = "M" -> "m" [] c = "N" -> "n" [] c = "O" -> "o" [] c = "P" -> "p"
                [] c = "Q" -> "q" [] c = "R" -> "r" [] c = "S" -> "s" [] c = "T" -> "t"
                [] c = "U" -> "u" [] c = "V" -> "v" [] c = "W" -> "w" [] c = "X" -> "x"
                [] c = "Y" -> "y" [] c = "Z" -> "z"
                [] OTHER -> c

\* str.lower()
Lower(t) == [i \in 1..Len(t) |-> LowerOf(t[i])]

\* keyword in text
Contains(t, k) == \E i \in 1..(Len(t) - Len(k) + 1) : SubSeq(t, i, i + Len(k) - 1) = k

\* UTF-8: the bytes 0xC3 0xA9 encode the one character e-acute; a lead byte
\* without its continuation byte, a continuation byte on its own and 0xFF are
\* invalid
LeadByte == "xC3"
ContByte == "xA9"
EAcute == "e_acute"

\* bytes.decode('utf-8', errors='replace'), and the text-mode pipe reader
\* (encoding='utf-8', errors='replace'): a lead byte and the continuation byte
\* after it become one character, every other invalid byte becomes U+FFFD
DecodedAt(b, i) ==
    IF b[i] = LeadByte /\ i + 1 <= Len(b) /\ b[i + 1] = ContByte THEN EAcute
    ELSE IF b[i] \in {LeadByte, ContByte, BadByte} THEN REPL
    ELSE b[i]

DecodeReplace(b) ==
    LET idx == SelectSeq(Positions(b),
                         LAMBDA i : ~(b[i] = ContByte /\ i > 1 /\ b[i - 1] = LeadByte))
    IN  [k \in 1..Len(idx) |-> DecodedAt(b, idx[k])]

\* bytes.decode(encoding) with the strict error handler raises UnicodeDecodeError
\* on an invalid byte
CanDecodeStrict(b) == \A i \in 1..Len(DecodeReplace(b)) : DecodeReplace(b)[i] # REPL
DecodeStrict(b) == DecodeReplace(b)

----------------------------------------------------------------------------
(* utils/ansi_utils.py : strip_ansi_codes *)

\* index of the first position >= i of t that holds no character of class cls
RECURSIVE SkipClass(_, _, _)
SkipClass(t, i, cls) ==
    IF i <= Len(t) /\ t[i] \in cls THEN SkipClass(t, i + 1, cls) ELSE i

\* a first pattern without its CSI branch:  \x1B[@-Z\\-_]
GeneralMatchLenWithoutCsi(t, i) ==
    IF i + 1 <= Len(t) /\ t[i] = ESC /\ t[i + 1] \in FeChars THEN 2 ELSE 0

\* length of the match of  \x1B(?:[@-Z\\-_]|\[[0-?]*[ -/]*[@-~])  at position i,
\* 0 when the pattern does not match there.  The three classes of the CSI branch
\* are disjoint, so the greedy match is the only candidate.
GeneralMatchLen(t, i) ==
    IF ~(i + 1 <= Len(t) /\ t[i] = ESC) THEN 0
    ELSE IF t[i + 1] \in FeChars THEN 2
    ELSE IF t[i + 1] # "[" THEN 0
    ELSE LET j == SkipClass(t, SkipClass(t, i + 2, ParamChars), InterChars)
         IN  IF j <= Len(t) /\ t[j] \in FinalChars THEN j - i + 1 ELSE 0

\* length of the match of  \x1B\[[0-9;]*<one of finals>  at position i, else 0
FallbackMatchLen(t, i, finals) ==
    IF ~(i + 1 <= Len(t) /\ t[i] = ESC /\ t[i + 1] = "[") THEN 0
    ELSE LET j == SkipClass(t, i + 2, {"0","1","2","3","4","5","6","7","8","9",";"})
         IN  IF j <= Len(t) /\ t[j] \in finals THEN j - i + 1 ELSE 0

\* re.sub(pattern, '', t) removes the matches found in one left-to-right pass,
\* each search starting where the last match ended; the text produced is not
\* scanned again.  Every match of these patterns holds exactly one ESC, its first
\* character, so no match starts inside another and the pass removes every
\* place the pattern matches: position i stays iff no match covers it.
SubGeneral(t) ==
    LET idx == SelectSeq(Positions(t),
                         LAMBDA i : ~\E j \in 1..i : GeneralMatchLen(t, j) > i - j)
    IN  [k \in 1..Len(idx) |-> t[idx[k]]]

SubFallback(t, finals) ==
    LET idx == SelectSeq(Positions(t),
                         LAMBDA i : ~\E j \in 1..i : FallbackMatchLen(t, j, finals) > i - j)
    IN  [k \in 1..Len(idx) |-> t[idx[k]]]

strip_ansi_codes(text) ==
    IF text = <<>> THEN text
    ELSE LET c1 == SubGeneral(text)
             c2 == SubFallback(c1, {"m"})
             c3 == SubFallback(c2, {"K"})
         IN  SubFallback(c3, {"H", "J"})

----------------------------------------------------------------------------
(* Inputs of strip_ansi_codes: plain text with CSI sequences inserted *)

\* ESC [ parameters final
Csi(params, final) == <<ESC, "[">> \o Chars(params) \o <<final>>


\* characters without ESC, among them the ones CSI sequences are made of
PlainChars == {"m", "[", "1"}

NoScrub == [spc |-> "off"]

\* one more plain character is appended to the text
ScrubAppendChar ==
    /\ scrub.spc = "build"
    /\ Len(scrub.plain) < MaxPlain
    /\ \E c \in PlainChars :
         scrub' = [scrub EXCEPT !.plain = Append(@, c), !.text = Append(@, c)]
    /\ UNCHANGED <<main, counts, rev, aux2>>

\* one more CSI sequence is inserted at the end of the text
ScrubInsertCsi ==
    /\ scrub.spc = "build"
    /\ scrub.inserted < MaxInserted
    /\ \E q \in { Csi("1;31", "m"), Csi("2", "K"), Csi("1;1", "H"), Csi("?25", "l") } :
         scrub' = [scrub EXCEPT !.text = @ \o q, !.inserted = @ + 1]
    /\ UNCHANGED <<main, counts, rev, aux2>>

\* the text is passed to strip_ansi_codes
ScrubApply ==
    /\ scrub.spc = "build"
    /\ scrub' = [scrub EXCEPT !.spc = "stripped", !.out = strip_ansi_codes(scrub.text)]
    /\ UNCHANGED <<main, counts, rev, aux2>>

----------------------------------------------------------------------------
(* What the child processes of the model write: bytes on stdout and stderr *)

Paths == 1..MaxPaths

\* stderr of a failing `rclone lsd`
LsdErrSamples ==
    { Chars("ERROR : directory not found"),
      Chars("Path Doesn't Exist"),
      Chars("No such file"),
      Csi("31", "m") \o Chars("Not ") \o Csi("0", "m") \o Chars("Found"),
      Chars("permission denied"),
      Csi("1;31", "m") \o Chars("connection refused"),
      Chars("not") \o <<ESC>> \o Chars(" found"),
      <<BadByte>> \o Chars("io error"),
      <<>> }

\* stderr of a failing `rclone mkdir`
MkdirErrSamples ==
    { Chars("Directory Already Exists"),
      Chars("mkdir: File exists"),
      Csi("2", "K") \o Chars("directory") \o Csi("0", "m") \o Chars(" exists"),
      Chars("permission denied"),
      Chars("exists"),
      <<>> }

\* content of remote files, as `rclone cat` writes it to stdout
FileContents ==
    { Chars("ok"),
      <<"a">> \o Csi("31", "m") \o <<"b">>,
      <<ESC, "x">>,
      <<LeadByte, ContByte, "!">>,
      <<"a", BadByte>>,
      <<>> }

\* stderr of a failing `rclone cat`
CatErrSamples ==
    { Chars("File Not Found"),
      Csi("31", "m") \o Chars("denied"),
      <<ESC, ESC, ESC, ESC, ESC, "A", "A", "A", "A", "A">>,
      <<>> }

\* an arbitrary rclone command run through execute_rclone_command
RunScripts ==
    { [out |-> Chars(" a") \o <<NL>> \o Chars("b") \o <<NL>>, err |-> <<>>, code |-> 0],
      [out |-> Csi("32", "m") \o Chars("ok"), err |-> Chars("NOTICE") \o Csi("0", "m"), code |-> 0],
      [out |-> <<"a", BadByte, ESC, "M">>, err |-> <<ESC, ESC, "A", "A">>, code |-> 1],
      [out |-> <<LeadByte, ContByte>>, err |-> <<ContByte>> \o Csi("", "x"), code |-> 2],
      [out |-> <<>>, err |-> Chars("Failed"), code |-> 1] }

\* what the child of command c may write and exit with, given the remote's state:
\* `lsd` exits 0 only for a directory that exists
Scripts(c, dirs) ==
    CASE c.cmd = "lsd" ->
           {[out |-> Chars("-1 sub"), err |-> <<>>, code |-> 0] : x \in {c.path} \cap dirs}
             \cup {[out |-> <<>>, err |-> e, code |-> 3] : e \in LsdErrSamples}
      [] c.cmd = "mkdir" ->
           {[out |-> <<>>, err |-> <<>>, code |-> 0]}
             \cup {[out |-> <<>>, err |-> e, code |-> 1] : e \in MkdirErrSamples}
      [] c.cmd = "cat" ->
           {[out |-> f, err |-> <<>>, code |-> 0] : f \in FileContents}
             \cup {[out |-> <<>>, err |-> e, code |-> 1] : e \in CatErrSamples}
      [] OTHER -> RunScripts

----------------------------------------------------------------------------
(* rclone/rclone_executor.py : execute_rclone_command *)

NoCall == [cmd |-> "none"]
\* open: the pipe handles of the child that the parent holds open
NoChild == [state |-> "none", open |-> {}]
NoLocals == [exc |-> "none"]
NoResult == [none |-> TRUE]
NoHist == [timed_out |-> FALSE, running_at_timeout |-> FALSE, kill_called |-> FALSE,
           drain_failed |-> FALSE, captured_out |-> <<>>, captured_err |-> <<>>,
           popen_calls |-> 0, spawned |-> 0, raised |-> "none"]


\* a caller enters execute_rclone_command with arguments c
Invoke(c) ==
    /\ pc' = "start"
    /\ call' = c
    /\ child' = NoChild
    /\ locals' = NoLocals
    /\ result' = NoResult
    /\ hist' = NoHist

Args(cmd, path, description, host_set, exe, timeout, binary) ==
    [cmd |-> cmd, path |-> path, description |-> description, host_set |-> host_set,
     exe |-> exe, timeout |-> timeout, binary |-> binary]

\* a precondition check that comes after the diagnostics of lines 104-108
RejectedAfterDiagnostics ==
    /\ pc = "start"
    /\ ~call.host_set \/ call.exe = "missing"
    /\ result' = IF ~call.host_set
                 THEN [error |-> Chars("REMOTE_HOST_NAME environment variable must be set to use rclone ")
                                   \o Chars(call.description),
                       success |-> FALSE]
                 ELSE [error |-> Chars("RCLONE_EXE_PATH specified but file does not exist"),
                       success |-> FALSE]
    /\ diagnostics_logged' = TRUE
    /\ pc' = "returned"
    /\ UNCHANGED <<call, child, locals, caller, ens, tool, remoteDirs, hist, aux>>

\* lines 77-87: the two precondition checks
Rejected ==
    /\ pc = "start"
    /\ ~call.host_set \/ call.exe = "missing"
    /\ result' = IF ~call.host_set
                 THEN [error |-> Chars("REMOTE_HOST_NAME environment variable must be set to use rclone ")
                                   \o Chars(call.description),
                       success |-> FALSE]
                 ELSE [error |-> Chars("RCLONE_EXE_PATH specified but file does not exist"),
                       success |-> FALSE]
    /\ pc' = "returned"
    /\ UNCHANGED <<call, child, locals, diagnostics_logged, caller, ens, tool, remoteDirs, hist, aux>>

\* lines 89-108: the command is logged and the diagnostics are logged once
Accepted ==
    /\ pc = "start"
    /\ call.host_set /\ call.exe # "missing"
    /\ diagnostics_logged' = TRUE
    /\ pc' = "spawn"
    /\ UNCHANGED <<call, child, locals, result, caller, ens, tool, remoteDirs, hist, aux>>


\* lines 126-137: Popen starts the child and holds the read ends of its two pipes
Spawn ==
    /\ pc = "spawn"
    /\ \E s \in Scripts(call, remoteDirs) :
         child' = [state |-> "running", open |-> {"stdout", "stderr"},
                   out |-> s.out, err |-> s.err, code |-> s.code, wOut |-> 0, wErr |-> 0]
    /\ hist' = [hist EXCEPT !.popen_calls = @ + 1, !.spawned = @ + 1]
    /\ pc' = "communicate"
    /\ UNCHANGED <<call, locals, result, diagnostics_logged, caller, ens, tool, remoteDirs, aux>>

\* lines 126, 179-181: Popen raises, process is still None and nothing is closed
SpawnRaises ==
    /\ pc = "spawn"
    /\ \/ locals' = [exc |-> "FileNotFoundError", msg |-> Chars("No such file or directory")]
       \/ \E m \in {Chars("[Errno 13] Permission denied"),
                   Chars("[Errno 24] Too many open files")} :
             locals' = [exc |-> "Exception", msg |-> m]
    /\ hist' = [hist EXCEPT !.popen_calls = @ + 1, !.raised = "spawn"]
    /\ pc' = "handler"
    /\ UNCHANGED <<call, child, result, diagnostics_logged, caller, ens, tool, remoteDirs, aux>>

\* the child writes the next byte of its stdout or of its stderr into its pipe
ChildWrite ==
    /\ child.state = "running"
    /\ \/ /\ child.wOut < Len(child.out)
          /\ child' = [child EXCEPT !.wOut = @ + 1]
       \/ /\ child.wErr < Len(child.err)
          /\ child' = [child EXCEPT !.wErr = @ + 1]
    /\ UNCHANGED <<pc, call, locals, result, diagnostics_logged, caller, ens, tool, remoteDirs, hist, aux>>

\* the child has written everything and exits; a successful mkdir has created
\* the directory
ChildExit ==
    /\ child.state = "running"
    /\ child.wOut = Len(child.out) /\ child.wErr = Len(child.err)
    /\ child' = [child EXCEPT !.state = "exited"]
    /\ remoteDirs' = IF call.cmd = "mkdir" /\ child.code = 0
                     THEN remoteDirs \cup {call.path} ELSE remoteDirs
    /\ UNCHANGED <<pc, call, locals, result, diagnostics_logged, caller, ens, tool, hist, aux>>

\* what the pipes have delivered so far
WrittenOut == SubSeq(child.out, 1, child.wOut)
WrittenErr == SubSeq(child.err, 1, child.wErr)

\* a ConvertStdout that decodes in binary mode too
ConvertStdoutAlwaysDecodes(data) == DecodeReplace(data)

\* lines 145-150 and 161-166: stdout is kept as bytes in binary mode and decoded
\* in text mode, stderr is decoded in both
ConvertStdout(data) == IF call.binary THEN data ELSE DecodeReplace(data)
ConvertStderr(data) == DecodeReplace(data)

\* a communicate() that returns what the pipes hold without waiting for the
\* end of the streams
CommunicateReturnsEarly ==
    /\ pc = "communicate"
    /\ child.state \in {"running", "exited"}
    /\ locals' = [exc |-> "none", stdout |-> ConvertStdout(WrittenOut),
                  stderr_str |-> ConvertStderr(WrittenErr), returncode |-> child.code]
    /\ hist' = [hist EXCEPT !.captured_out = WrittenOut, !.captured_err = WrittenErr]
    /\ child' = [child EXCEPT !.open = {}]
    /\ pc' = "finally"
    /\ UNCHANGED <<call, result, diagnostics_logged, caller, ens, tool, remoteDirs, aux>>

\* lines 141-150: communicate() returns after end of stream and the child's exit
CommunicateReturns ==
    /\ pc = "communicate"
    /\ child.state = "exited"
    /\ locals' = [exc |-> "none", stdout |-> ConvertStdout(WrittenOut),
                  stderr_str |-> ConvertStderr(WrittenErr), returncode |-> child.code]
    /\ hist' = [hist EXCEPT !.captured_out = WrittenOut, !.captured_err = WrittenErr]
    /\ child' = [child EXCEPT !.open = {}]
    /\ pc' = "finally"
    /\ UNCHANGED <<call, result, diagnostics_logged, caller, ens, tool, remoteDirs, aux>>

\* line 141: communicate() raises something other than TimeoutExpired
CommunicateRaises ==
    /\ pc = "communicate"
    /\ \E m \in {Chars("[Errno 13] Permission denied"),
                Chars("[Errno 24] Too many open files")} :
          locals' = [exc |-> "Exception", msg |-> m]
    /\ hist' = [hist EXCEPT !.raised = "communicate"]
    /\ pc' = "finally"
    /\ UNCHANGED <<call, child, result, diagnostics_logged, caller, ens, tool, remoteDirs, aux>>

\* lines 141, 151-152: the timeout elapses before communicate() has returned
TimeoutExpired ==
    /\ pc = "communicate"
    /\ hist' = [hist EXCEPT !.timed_out = TRUE,
                            !.running_at_timeout = (child.state = "running")]
    /\ pc' = "kill"
    /\ UNCHANGED <<call, child, locals, result, diagnostics_logged, caller, ens, tool, remoteDirs, aux>>

\* a Kill that delivers no signal
KillLeavesChild ==
    /\ pc = "kill"
    /\ hist' = [hist EXCEPT !.kill_called = TRUE]
    /\ pc' = "drain"
    /\ UNCHANGED <<call, child, locals, result, diagnostics_logged, caller, ens, tool, remoteDirs, aux>>

\* lines 153-157: process.kill() ends a child that has not exited
Kill ==
    /\ pc = "kill"
    /\ child' = [child EXCEPT !.state = IF @ = "running" THEN "killed" ELSE @]
    /\ hist' = [hist EXCEPT !.kill_called = TRUE]
    /\ pc' = "drain"
    /\ UNCHANGED <<call, locals, result, diagnostics_logged, caller, ens, tool, remoteDirs, aux>>

\* lines 159-166, 177-178: communicate(timeout=2) returns what the pipes held
\* and has closed them, returncode becomes -1 and TimeoutExpired is raised again
DrainReturns ==
    /\ pc = "drain"
    /\ locals' = [exc |-> "TimeoutExpired", stdout |-> ConvertStdout(WrittenOut),
                  stderr_str |-> ConvertStderr(WrittenErr), returncode |-> -1]
    /\ hist' = [hist EXCEPT !.captured_out = WrittenOut, !.captured_err = WrittenErr]
    /\ child' = [child EXCEPT !.open = {}]
    /\ pc' = "finally"
    /\ UNCHANGED <<call, result, diagnostics_logged, caller, ens, tool, remoteDirs, aux>>

\* lines 159-160, 167-171, 177-178: communicate(timeout=2) raises (a descendant
\* of the child still holds the pipes open), the output variables are blanked
DrainRaises ==
    /\ pc = "drain"
    /\ locals' = [exc |-> "TimeoutExpired", stdout |-> <<>>, stderr_str |-> <<>>,
                  returncode |-> -1]
    /\ hist' = [hist EXCEPT !.drain_failed = TRUE,
                            !.captured_out = WrittenOut, !.captured_err = WrittenErr]
    /\ pc' = "finally"
    /\ UNCHANGED <<call, child, result, diagnostics_logged, caller, ens, tool, remoteDirs, aux>>

\* a finally block that closes nothing
FinallyLeavesOpen ==
    /\ pc = "finally"
    /\ pc' = IF locals.exc = "none" THEN "build" ELSE "handler"
    /\ UNCHANGED <<call, child, locals, result, diagnostics_logged, caller, ens, tool,
                   remoteDirs, hist, aux>>

\* lines 179-191: the finally block closes process.stdout, process.stderr and
\* process.stdin (None here); a pending exception goes on to the handlers
Finally ==
    /\ pc = "finally"
    /\ child' = [child EXCEPT !.open = {}]
    /\ pc' = IF locals.exc = "none" THEN "build" ELSE "handler"
    /\ UNCHANGED <<call, locals, result, diagnostics_logged, caller, ens, tool,
                   remoteDirs, hist, aux>>

\* lines 199, 203-204: strip_ansi_codes(x) if x else ""
Scrub(t) == IF t # <<>> THEN strip_ansi_codes(t) ELSE <<>>

\* str.strip(): leading and trailing whitespace removed
RECURSIVE LStrip(_)
LStrip(t) == IF t # <<>> /\ Head(t) \in {" ", NL} THEN LStrip(Tail(t)) ELSE t
RECURSIVE RStrip(_)
RStrip(t) == IF t # <<>> /\ t[Len(t)] \in {" ", NL} THEN RStrip(SubSeq(t, 1, Len(t) - 1)) ELSE t
Strip(t) == RStrip(LStrip(t))

\* str.split('\n'): the pieces between newlines, at least one piece
RECURSIVE SplitLines(_, _)
SplitLines(t, cur) ==
    IF t = <<>> THEN <<cur>>
    ELSE IF Head(t) = NL THEN <<cur>> \o SplitLines(Tail(t), <<>>)
    ELSE SplitLines(Tail(t), Append(cur, Head(t)))

\* line 234: stdout_content.strip().split('\n') if stdout_content else []
StdoutLines(t) == IF t # <<>> THEN SplitLines(Strip(t), <<>>) ELSE <<>>

\* lines 226, 233: stderr_content if stderr_content else None
OrNone(t) == IF t # <<>> THEN t ELSE None

\* lines 193-235: the result of a call whose communicate() returned
BuiltResult ==
    IF call.binary
    THEN [success |-> (locals.returncode = 0), exit_code |-> locals.returncode,
          stdout |-> locals.stdout, stderr |-> OrNone(Scrub(locals.stderr_str))]
    ELSE [success |-> (locals.returncode = 0), exit_code |-> locals.returncode,
          stdout |-> Scrub(locals.stdout), stderr |-> OrNone(Scrub(locals.stderr_str)),
          stdout_lines |-> StdoutLines(Scrub(locals.stdout))]

BuildResult ==
    /\ pc = "build"
    /\ result' = BuiltResult
    /\ pc' = "returned"
    /\ UNCHANGED <<call, child, locals, diagnostics_logged, caller, ens, tool, remoteDirs, hist, aux>>

\* lines 237-240
TimeoutResult ==
    [error |-> Chars("rclone ") \o Chars(call.description) \o Chars(" timed out after ")
                 \o Chars(ToString(call.timeout)) \o Chars(" seconds"),
     success |-> FALSE, exit_code |-> -1]

\* a not-found handler that reports as the generic handler does
NotFoundResultAsExecutionError ==
    [error |-> Chars("rclone ") \o Chars(call.description) \o Chars(" failed: ") \o locals.msg,
     success |-> FALSE]

\* lines 241-244
NotFoundResult ==
    [error |-> Chars("rclone executable not found. Please install rclone or set RCLONE_EXE_PATH."),
     success |-> FALSE]

\* lines 245-248
FailedResult ==
    [error |-> Chars("rclone ") \o Chars(call.description) \o Chars(" failed: ") \o locals.msg,
     success |-> FALSE]

\* a timeout handler that starts the command once more
HandlerRetriesTimeout ==
    /\ pc = "handler"
    /\ IF locals.exc = "TimeoutExpired" /\ hist.popen_calls < 2
       THEN /\ pc' = "spawn"
            /\ UNCHANGED result
       ELSE /\ result' = CASE locals.exc = "TimeoutExpired" -> TimeoutResult
                           [] locals.exc = "FileNotFoundError" -> NotFoundResult
                           [] OTHER -> FailedResult
            /\ pc' = "returned"
    /\ UNCHANGED <<call, child, locals, diagnostics_logged, caller, ens, tool, remoteDirs, hist, aux>>

\* lines 237-248: the three exception handlers
Handler ==
    /\ pc = "handler"
    /\ result' = CASE locals.exc = "TimeoutExpired" -> TimeoutResult
                   [] locals.exc = "FileNotFoundError" -> NotFoundResult
                   [] OTHER -> FailedResult
    /\ pc' = "returned"
    /\ UNCHANGED <<call, child, locals, diagnostics_logged, caller, ens, tool, remoteDirs, hist, aux>>

Exec ==
    \/ Rejected \/ Accepted \/ Spawn \/ SpawnRaises \/ ChildWrite \/ ChildExit
    \/ CommunicateReturns \/ CommunicateRaises \/ TimeoutExpired \/ Kill
    \/ DrainReturns \/ DrainRaises \/ Finally \/ BuildResult \/ Handler


----------------------------------------------------------------------------
(* A caller that runs one rclone command through execute_rclone_command *)

\* the call returns to its caller; the model forgets the finished call
Forget ==
    /\ pc' = "idle"
    /\ caller' = "none"
    /\ call' = NoCall
    /\ child' = NoChild
    /\ locals' = NoLocals
    /\ result' = NoResult
    /\ hist' = NoHist

DirectCall ==
    /\ pc = "idle" /\ caller = "none"
    /\ ens.epc = "idle" /\ tool.tpc = "idle"
    /\ caller' = "direct"
    /\ \E host_set \in BOOLEAN, exe \in {"default", "exists", "missing"}, binary \in BOOLEAN :
         Invoke(Args("run", 0, "copy", host_set, exe, 30, binary))
    /\ UNCHANGED <<diagnostics_logged, ens, tool, remoteDirs, aux>>

DirectReturn ==
    /\ pc = "returned" /\ caller = "direct"
    /\ Forget
    /\ UNCHANGED <<diagnostics_logged, ens, tool, remoteDirs, aux>>

----------------------------------------------------------------------------
(* A sequence of execute_rclone_command calls whose calls and children are counted *)

NoCounts == [calls |-> 0, spawned |-> 0]

CountedCall ==
    /\ pc = "idle" /\ caller = "none"
    /\ ens.epc = "idle" /\ tool.tpc = "idle"
    /\ counts.calls < MaxCalls
    /\ caller' = "counted"
    /\ counts' = [counts EXCEPT !.calls = @ + 1]
    /\ \E host_set \in BOOLEAN, exe \in {"default", "exists", "missing"}, binary \in BOOLEAN :
         Invoke(Args("run", 0, "copy", host_set, exe, 30, binary))
    /\ UNCHANGED <<diagnostics_logged, ens, tool, remoteDirs, scrub, rev, aux2>>

\* the call returns; the children it started are added to the count
CountedReturn ==
    /\ pc = "returned" /\ caller = "counted"
    /\ counts' = [counts EXCEPT !.spawned = @ + hist.spawned]
    /\ Forget
    /\ UNCHANGED <<diagnostics_logged, ens, tool, remoteDirs, scrub, rev, aux2>>

----------------------------------------------------------------------------
(* rclone/rclone_operations.py : ensure_remote_directory_exists *)

\* dict.get(key, default)
Get(d, key, default) == IF key \in DOMAIN d THEN d[key] ELSE default

\* result.get("stderr", "") or ""
StderrOf(d) == IF Get(d, "stderr", <<>>) = None THEN <<>> ELSE Get(d, "stderr", <<>>)

\* lines 55-60
NotFoundKeywords ==
    {Chars("directory not found"), Chars("doesn't exist"), Chars("no such file"),
     Chars("not found")}

\* lines 87-91
AlreadyExistsKeywords ==
    {Chars("already exists"), Chars("file exists"), Chars("directory exists")}

\* any(keyword in stderr.lower() for keyword in keywords)
AnyKeyword(stderr_content, keywords) ==
    \E k \in keywords : Contains(Lower(stderr_content), k)

\* a ProbeSucceeded with the test inverted
ProbeSucceededInverted(r) == ~r.success

\* line 49: result.get("success")
ProbeSucceeded(r) == r.success

\* an is_directory_not_found that also takes an empty stderr for "not found"
IsDirectoryNotFoundOrEmpty(stderr_content) ==
    stderr_content = <<>> \/ AnyKeyword(stderr_content, NotFoundKeywords)

\* lines 54-60: is_directory_not_found
IsDirectoryNotFound(stderr_content) == AnyKeyword(stderr_content, NotFoundKeywords)

\* an already-exists test that compares without lower()
IsAlreadyExistsCaseSensitive(stderr_content) ==
    \E k \in AlreadyExistsKeywords : Contains(stderr_content, k)

\* lines 85-91: the already-exists test on the creation command's stderr
IsAlreadyExists(stderr_content) == AnyKeyword(stderr_content, AlreadyExistsKeywords)

\* a MkdirVerdict that looks at stderr only
MkdirVerdictIgnoresSuccess(r) == IsAlreadyExists(StderrOf(r))

\* a MkdirVerdict that takes every failed creation for a failure
MkdirVerdictSuccessOnly(r) == r.success

\* lines 80-96: the value returned after the creation command
MkdirVerdict(r) == r.success \/ IsAlreadyExists(StderrOf(r))

\* prev_ok: the (path, executable) arguments of the call before, when it was
\* made with a host name and returned True, else NoPrev
NoPrev == <<0, "none">>
NoEns(prev) == [epc |-> "idle", prev_ok |-> prev]

\* lines 28-47: without a host name the call returns False at once, otherwise
\* the listing probe is issued
EnsureStart ==
    /\ pc = "idle" /\ caller = "none"
    /\ ens.epc = "idle" /\ tool.tpc = "idle"
    /\ \E p \in Paths, host_set \in BOOLEAN, exe \in {"default", "exists", "missing"} :
         LET e == [epc |-> "probing", prev_ok |-> ens.prev_ok, path |-> p,
                   host_set |-> host_set, exe |-> exe, issued |-> <<>>, ret |-> FALSE,
                   probe |-> NoResult, mkdir |-> NoResult,
                   was_ok |-> (host_set /\ <<p, exe>> = ens.prev_ok), existed |-> (p \in remoteDirs)]
         IN  IF ~host_set
             THEN /\ ens' = [e EXCEPT !.epc = "done", !.ret = FALSE]
                  /\ UNCHANGED <<pc, call, child, locals, result, caller, hist, aux>>
             ELSE /\ ens' = [e EXCEPT !.issued = <<"lsd">>]
                  /\ caller' = "ensure"
                  /\ Invoke(Args("lsd", p, "lsd (check directory)", host_set, exe, 60, FALSE))
    /\ UNCHANGED <<diagnostics_logged, tool, remoteDirs, aux>>

\* an EnsureAfterProbe that issues the creation command after a successful probe too
EnsureAfterProbeCreatesAnyway ==
    /\ pc = "returned" /\ caller = "ensure" /\ ens.epc = "probing"
    /\ IF ~ProbeSucceeded(result) /\ ~IsDirectoryNotFound(StderrOf(result))
       THEN /\ ens' = [ens EXCEPT !.epc = "done", !.ret = FALSE, !.probe = result]
            /\ Forget
       ELSE /\ ens' = [ens EXCEPT !.epc = "creating", !.probe = result,
                                  !.issued = Append(@, "mkdir")]
            /\ Invoke(Args("mkdir", ens.path, "mkdir (create directory)", ens.host_set,
                           ens.exe, 60, FALSE))
            /\ UNCHANGED caller
    /\ UNCHANGED <<diagnostics_logged, tool, remoteDirs, aux>>

\* lines 49-78 and 97-100: the probe's result decides between returning True,
\* returning False and issuing the creation command
EnsureAfterProbe ==
    /\ pc = "returned" /\ caller = "ensure" /\ ens.epc = "probing"
    /\ IF ProbeSucceeded(result)
       THEN /\ ens' = [ens EXCEPT !.epc = "done", !.ret = TRUE, !.probe = result]
            /\ Forget
       ELSE IF ~IsDirectoryNotFound(StderrOf(result))
       THEN /\ ens' = [ens EXCEPT !.epc = "done", !.ret = FALSE, !.probe = result]
            /\ Forget
       ELSE /\ ens' = [ens EXCEPT !.epc = "creating", !.probe = result,
                                  !.issued = Append(@, "mkdir")]
            /\ Invoke(Args("mkdir", ens.path, "mkdir (create directory)", ens.host_set,
                           ens.exe, 60, FALSE))
            /\ UNCHANGED caller
    /\ UNCHANGED <<diagnostics_logged, tool, remoteDirs, aux>>

\* an EnsureAfterMkdir that issues the creation command once more when it failed
EnsureAfterMkdirRetries ==
    /\ pc = "returned" /\ caller = "ensure" /\ ens.epc = "creating"
    /\ IF ~MkdirVerdict(result) /\ Len(ens.issued) < 3
       THEN /\ ens' = [ens EXCEPT !.mkdir = result, !.issued = Append(@, "mkdir")]
            /\ Invoke(Args("mkdir", ens.path, "mkdir (create directory)", ens.host_set,
                           ens.exe, 60, FALSE))
            /\ UNCHANGED caller
       ELSE /\ ens' = [ens EXCEPT !.epc = "done", !.mkdir = result, !.ret = MkdirVerdict(result)]
            /\ Forget
    /\ UNCHANGED <<diagnostics_logged, tool, remoteDirs, aux>>

\* lines 80-96: the creation command's result
EnsureAfterMkdir ==
    /\ pc = "returned" /\ caller = "ensure" /\ ens.epc = "creating"
    /\ ens' = [ens EXCEPT !.epc = "done", !.mkdir = result, !.ret = MkdirVerdict(result)]
    /\ Forget
    /\ UNCHANGED <<diagnostics_logged, tool, remoteDirs, aux>>

\* the boolean goes back to the caller
EnsureReturn ==
    /\ ens.epc = "done"
    /\ ens' = NoEns(IF ens.ret THEN <<ens.path, ens.exe>> ELSE NoPrev)
    /\ UNCHANGED <<pc, call, child, locals, result, diagnostics_logged, caller, tool,
                   remoteDirs, hist, aux>>


----------------------------------------------------------------------------
(* utils/ansi_utils.py : clean_dict_for_json, utils/error_utils.py : return_error *)

\* the keys of the tools' dictionaries whose values are str
TextKeys == {"error", "file_path", "content", "encoding", "stdout", "stderr", "remote_dest"}

\* every str value is scrubbed, every other value is kept (the dictionaries of
\* the tools modelled here hold no nested dictionary or list besides the
\* statistics of sync_directory, which are left out)
clean_dict_for_json(data) ==
    [k \in DOMAIN data |-> IF k \in TextKeys THEN strip_ansi_codes(data[k]) ELSE data[k]]

return_error(error_msg) == clean_dict_for_json([error |-> strip_ansi_codes(error_msg)])

----------------------------------------------------------------------------
(* mcp_tools/file_tools.py : read_remote_file *)

NoTool == [tpc |-> "idle"]

FilePath == Chars("docs/a.txt")

\* lines 234-259: the tool's own precondition checks, then `rclone cat` in
\* binary mode
ReadStart ==
    /\ pc = "idle" /\ caller = "none"
    /\ ens.epc = "idle" /\ tool.tpc = "idle"
    /\ \E host_set \in BOOLEAN, exe \in {"default", "exists", "missing"} :
         IF ~host_set
         THEN /\ tool' = [tpc |-> "done", read |-> FALSE, bytes |-> <<>>,
                          ret |-> return_error(Chars("REMOTE_HOST_NAME environment variable must be set to use rclone"))]
              /\ UNCHANGED <<pc, call, child, locals, result, caller, hist, aux>>
         ELSE IF exe = "missing"
         THEN /\ tool' = [tpc |-> "done", read |-> FALSE, bytes |-> <<>>,
                          ret |-> return_error(Chars("RCLONE_EXE_PATH specified but file does not exist"))]
              /\ UNCHANGED <<pc, call, child, locals, result, caller, hist, aux>>
         ELSE /\ tool' = [tpc |-> "reading"]
              /\ caller' = "read"
              /\ Invoke(Args("cat", 0, "cat", host_set, exe, 300, TRUE))
    /\ UNCHANGED <<diagnostics_logged, ens, remoteDirs, aux>>

\* lines 261-274: the error message of a failed `rclone cat`
CatErrorMessage(r) ==
    IF StderrOf(r) # <<>>
    THEN IF \/ Contains(Lower(StderrOf(r)), Chars("file not found"))
            \/ Contains(Lower(StderrOf(r)), Chars("doesn't exist"))
         THEN Chars("File not found on remote server: ") \o FilePath
         ELSE Chars("rclone cat failed: ") \o StderrOf(r)
    ELSE Get(r, "error", Chars("Unknown error"))

\* lines 261-301: the value read_remote_file returns for the result r of the
\* `rclone cat` call (encoding utf-8)
ReadValue(r) ==
    IF ~r.success
    THEN return_error(strip_ansi_codes(CatErrorMessage(r)))
    ELSE IF ~CanDecodeStrict(r.stdout)
    THEN return_error(Chars("Failed to decode file with utf-8 encoding: invalid start byte"))
    ELSE clean_dict_for_json([success |-> TRUE, file_path |-> FilePath,
                              content |-> DecodeStrict(r.stdout),
                              file_size |-> Len(r.stdout), encoding |-> Chars("utf-8")])

ReadFinish ==
    /\ pc = "returned" /\ caller = "read" /\ tool.tpc = "reading"
    /\ tool' = [tpc |-> "done", read |-> result.success,
                bytes |-> Get(result, "stdout", <<>>), ret |-> ReadValue(result)]
    /\ Forget
    /\ UNCHANGED <<diagnostics_logged, ens, remoteDirs, aux>>

\* the dictionary goes back to the caller
ReadReturn ==
    /\ tool.tpc = "done"
    /\ tool' = NoTool
    /\ UNCHANGED <<pc, call, child, locals, result, diagnostics_logged, caller, ens,
                   remoteDirs, hist, aux>>


----------------------------------------------------------------------------
(* mcp_tools/sync_tools.py : sync_directory, mcp_tools/file_tools.py :     *)
(* upload_file.  Both make sure of the remote directory and then run one   *)
(* transfer command.  Of the returned dictionaries the fields that repeat  *)
(* the arguments and the statistics parsed from stdout are left out.       *)

\* the rclone command each tool transfers with
TransferCmd(name) == IF name = "sync_directory" THEN "sync" ELSE "copyto"

\* sync_tools.py lines 42-79, file_tools.py lines 30-134: the tool's own
\* precondition checks, then ensure_remote_directory_exists for the target
\* directory (rclone_operations.py lines 35-47: the listing probe is issued);
\* upload_file with a remote path without a directory part goes on to the
\* transfer at once.  The timeout is 3600 s for sync (sync_tools.py line 117)
\* and the 60 s floor of file_tools.py line 139 for copyto.  The tools are
\* given an executable path; os.path.exists is asked again by every call of
\* execute_rclone_command (rclone_executor.py line 83), so the file the tool
\* saw (exe) may be gone for the runner (later)
XferStart ==
    /\ pc = "idle" /\ caller = "none"
    /\ ens.epc = "idle" /\ tool.tpc = "idle"
    /\ \E name \in {"sync_directory", "upload_file"}, p \in Paths, has_dir \in BOOLEAN,
          local_ok \in BOOLEAN, host_set \in BOOLEAN, exe \in {"exists", "missing"},
          later \in {"exists", "missing"} :
         LET t == [tpc |-> "ensuring", name |-> name, has_dir |-> has_dir, path |-> p,
                   exe |-> later, ensured |-> "none", issued |-> <<>>]
             refused(msg) == /\ tool' = [t EXCEPT !.tpc = "done"] @@ [ret |-> return_error(msg)]
                             /\ UNCHANGED <<pc, call, child, locals, result, caller, ens, hist>>
         IN  /\ name = "sync_directory" => has_dir
             /\ (~local_ok \/ ~host_set \/ exe = "missing") => later = exe
             /\ IF ~local_ok THEN refused(Chars("Local path does not exist"))
                ELSE IF ~host_set
                THEN refused(Chars("REMOTE_HOST_NAME environment variable must be set to use rclone"))
                ELSE IF exe = "missing"
                THEN refused(Chars("RCLONE_EXE_PATH specified but file does not exist"))
                ELSE IF ~has_dir
                THEN /\ tool' = [t EXCEPT !.tpc = "transferring", !.ensured = "skipped",
                                          !.issued = <<TransferCmd(name)>>]
                     /\ caller' = "transfer"
                     /\ Invoke(Args(TransferCmd(name), p, TransferCmd(name), TRUE, later,
                                 IF name = "sync_directory" THEN 3600 ELSE 60, FALSE))
                     /\ UNCHANGED ens
                ELSE /\ tool' = t
                     /\ ens' = [epc |-> "probing", prev_ok |-> ens.prev_ok, path |-> p,
                                host_set |-> TRUE, exe |-> later, issued |-> <<"lsd">>,
                                ret |-> FALSE, probe |-> NoResult, mkdir |-> NoResult,
                                was_ok |-> (<<p, later>> = ens.prev_ok),
                                existed |-> (p \in remoteDirs)]
                     /\ caller' = "ensure"
                     /\ Invoke(Args("lsd", p, "lsd (check directory)", TRUE, later, 60, FALSE))
    /\ UNCHANGED <<diagnostics_logged, remoteDirs, aux>>

\* a tool that transfers whatever ensure_remote_directory_exists returned
XferAfterEnsureIgnoresVerdict ==
    /\ pc = "idle" /\ tool.tpc = "ensuring" /\ ens.epc = "done"
    /\ ens' = NoEns(IF ens.ret THEN <<ens.path, ens.exe>> ELSE NoPrev)
    /\ tool' = [tool EXCEPT !.tpc = "transferring",
                            !.ensured = IF ens.ret THEN "true" ELSE "false",
                            !.issued = ens.issued \o <<TransferCmd(tool.name)>>]
    /\ caller' = "transfer"
    /\ Invoke(Args(TransferCmd(tool.name), tool.path, TransferCmd(tool.name), TRUE,
                   tool.exe, IF tool.name = "sync_directory" THEN 3600 ELSE 60, FALSE))
    /\ UNCHANGED <<diagnostics_logged, remoteDirs, aux>>

\* sync_tools.py lines 76-118, file_tools.py lines 130-161: False from
\* ensure_remote_directory_exists ends the tool with an error, True lets it
\* run the transfer command
XferAfterEnsure ==
    /\ pc = "idle" /\ tool.tpc = "ensuring" /\ ens.epc = "done"
    /\ ens' = NoEns(IF ens.ret THEN <<ens.path, ens.exe>> ELSE NoPrev)
    /\ IF ens.ret
       THEN /\ tool' = [tool EXCEPT !.tpc = "transferring", !.ensured = "true",
                                    !.issued = ens.issued \o <<TransferCmd(tool.name)>>]
            /\ caller' = "transfer"
            /\ Invoke(Args(TransferCmd(tool.name), tool.path, TransferCmd(tool.name), TRUE,
                           tool.exe, IF tool.name = "sync_directory" THEN 3600 ELSE 60, FALSE))
       ELSE /\ tool' = [tool EXCEPT !.tpc = "done", !.ensured = "false", !.issued = ens.issued]
                          @@ [ret |-> return_error(Chars("Failed to ensure remote directory exists"))]
            /\ UNCHANGED <<pc, call, child, locals, result, caller, hist>>
    /\ UNCHANGED <<diagnostics_logged, remoteDirs, aux>>

\* sync_tools.py lines 120-196, file_tools.py lines 163-200: the dictionary
\* returned for the result r of the transfer command
TransferValue(name, r) ==
    IF ~r.success
    THEN clean_dict_for_json(
           [error |-> strip_ansi_codes(
                         IF StderrOf(r) # <<>>
                         THEN Chars("rclone ") \o Chars(TransferCmd(name)) \o Chars(" failed: ")
                                 \o strip_ansi_codes(StderrOf(r))
                         ELSE Get(r, "error", Chars("Unknown error"))),
            exit_code |-> Get(r, "exit_code", -1),
            stdout |-> Get(r, "stdout", <<>>),
            stderr |-> StderrOf(r)])
    ELSE clean_dict_for_json(
           [success |-> TRUE, remote_dest |-> Chars("remote:dir"),
            exit_code |-> Get(r, "exit_code", 0),
            stdout |-> IF Get(r, "stdout", <<>>) = None THEN <<>> ELSE Get(r, "stdout", <<>>),
            stderr |-> OrNone(StderrOf(r))])

\* the transfer command has returned
XferFinish ==
    /\ pc = "returned" /\ caller = "transfer" /\ tool.tpc = "transferring"
    /\ tool' = [tool EXCEPT !.tpc = "done"] @@ [ret |-> TransferValue(tool.name, result)]
    /\ Forget
    /\ UNCHANGED <<diagnostics_logged, ens, remoteDirs, aux>>

----------------------------------------------------------------------------
(* rclone/rclone_decrypt_pass.py : reveal                                  *)
(* A byte is a number in 0..255, the returned text a sequence of code      *)
(* points, the obscured string a sequence of one-character strings.        *)

\* AES.block_size
BlockSize == 16

\* the URL-safe base64 alphabet, values 0..63 in order
B64Alphabet == Chars("ABCDEFGHIJKLMNOPQRSTUVWXYZabcdefghijklmnopqrstuvwxyz0123456789-_")
UrlSafeChars == {B64Alphabet[i] : i \in 1..64}

\* base64.urlsafe_b64decode translates - and _ to + and / and hands the string
\* to the standard decoder, so + and / are data characters too
IsB64Data(c) == c \in UrlSafeChars \cup {"+", "/"}
B64Value(c) ==
    IF c = "+" THEN 62 ELSE IF c = "/" THEN 63
    ELSE (CHOOSE i \in 1..64 : B64Alphabet[i] = c) - 1

\* line 55: base64.urlsafe_b64decode(padded_value), that is binascii.a2b_base64
\* without strict mode.  A string with a non-ASCII character is refused.  Every
\* character that is neither data nor "=" is skipped.  An "=" is skipped too,
\* unless the current group holds q >= 2 data characters and the "=" seen since
\* the last data character bring it to four: there decoding stops and succeeds.
\* Without such a stop the data characters must come in complete groups of four.
urlsafe_b64decode(s) ==
    LET MaxOf(S) == CHOOSE m \in S : \A x \in S : x <= m
        MinOf(S) == CHOOSE m \in S : \A x \in S : m <= x
        q(i) == Cardinality({j \in 1..(i - 1) : IsB64Data(s[j])}) % 4
        lastData(i) == MaxOf({0} \cup {j \in 1..(i - 1) : IsB64Data(s[j])})
        pads(i) == Cardinality({j \in (lastData(i) + 1)..i : s[j] = "="})
        stops == {i \in 1..Len(s) : s[i] = "=" /\ q(i) >= 2 /\ q(i) + pads(i) >= 4}
        stop == IF stops = {} THEN Len(s) + 1 ELSE MinOf(stops)
        idx == SelectSeq(Positions(s), LAMBDA i : i < stop /\ IsB64Data(s[i]))
        v == [k \in 1..Len(idx) |-> B64Value(s[idx[k]])]
        n == Len(idx)
    IN  IF \E i \in 1..Len(s) : s[i] = EAcute THEN [ok |-> FALSE, bytes |-> <<>>]
        ELSE IF stops = {} /\ n % 4 # 0 THEN [ok |-> FALSE, bytes |-> <<>>]
        ELSE [ok |-> TRUE,
              bytes |-> [k \in 1..((6 * n) \div 8) |->
                           LET j == (8 * (k - 1)) \div 6
                               o == (8 * (k - 1)) % 6
                           IN  ((v[j + 1] * 64 + v[j + 2]) \div (2 ^ (4 - o))) % 256]]

\* a ^ b on bytes
Xor(a, b) ==
    LET XorBit(k) == ((((a \div (2 ^ k)) % 2) + ((b \div (2 ^ k)) % 2)) % 2) * (2 ^ k)
    IN  XorBit(0) + XorBit(1) + XorBit(2) + XorBit(3)
        + XorBit(4) + XorBit(5) + XorBit(6) + XorBit(7)

\* a counter whose last byte wraps without a carry into the byte before it
counter_bytes_without_carry(iv, block_index) ==
    [k \in 1..8 |-> IF k = 8 THEN (iv[16] + block_index) % 256 ELSE iv[8 + k]]

\* lines 81, 87-88: the last 8 bytes of the IV read as a big-endian number, plus
\* block_index, cut to 64 bits, written back as 8 bytes (for block_index < 256:
\* the carry out of the last byte runs through the bytes that are 0xFF)
counter_bytes(iv, block_index) ==
    [k \in 1..8 |->
        IF k = 8 THEN (iv[16] + block_index) % 256
        ELSE IF iv[16] + block_index >= 256 /\ \A j \in (k + 1)..7 : iv[8 + j] = 255
        THEN (iv[8 + k] + 1) % 256
        ELSE iv[8 + k]]

\* lines 74, 92: AES-256 of one block under CRYPT_KEY.  The cipher is not
\* computed; any fixed function from blocks to blocks stands for it.
cipher_block_encrypt(block) ==
    [j \in 1..BlockSize |->
        (7 * block[j] + 31 * block[16] + 17 * block[9] + 3 * block[1] + 13 * j + 89) % 256]

\* lines 79, 89: nonce + counter_bytes
counter_block(iv, block_index) == SubSeq(iv, 1, 8) \o counter_bytes(iv, block_index)

\* line 92
keystream(iv, block_index) == cipher_block_encrypt(counter_block(iv, block_index))

\* a block step that leaves out a last block shorter than 16 bytes
decrypted_block_unless_short(iv, encrypted_data, block_index) ==
    LET first == block_index * BlockSize + 1
        block == SubSeq(encrypted_data, first, first + BlockSize - 1)
    IN  IF first + BlockSize - 1 > Len(encrypted_data) THEN <<>>
        ELSE [a \in 1..Len(block) |-> Xor(block[a], keystream(iv, block_index)[a])]

\* lines 95-96: one block, the last one possibly short, XORed with the keystream
decrypted_block(iv, encrypted_data, block_index) ==
    LET first == block_index * BlockSize + 1
        last == IF first + BlockSize - 1 <= Len(encrypted_data)
                THEN first + BlockSize - 1 ELSE Len(encrypted_data)
        block == SubSeq(encrypted_data, first, last)
    IN  [a \in 1..Len(block) |-> Xor(block[a], keystream(iv, block_index)[a])]

\* lines 83-97: the blocks one after another
RECURSIVE decrypt_from(_, _, _)
decrypt_from(iv, encrypted_data, block_index) ==
    IF block_index * BlockSize >= Len(encrypted_data) THEN <<>>
    ELSE decrypted_block(iv, encrypted_data, block_index)
           \o decrypt_from(iv, encrypted_data, block_index + 1)

\* length of the well-formed UTF-8 sequence that starts at byte j of b, else 0
Utf8SeqLen(b, j) ==
    LET IsCont(x) == 128 <= x /\ x <= 191
        c == b[j]
        g(k) == IF j + k <= Len(b) THEN b[j + k] ELSE -1
    IN  IF c < 128 THEN 1
        ELSE IF 194 <= c /\ c <= 223 THEN (IF IsCont(g(1)) THEN 2 ELSE 0)
        ELSE IF 224 <= c /\ c <= 239
        THEN (IF /\ (IF c = 224 THEN 160 ELSE 128) <= g(1)
                 /\ g(1) <= (IF c = 237 THEN 159 ELSE 191)
                 /\ IsCont(g(2))
              THEN 3 ELSE 0)
        ELSE IF 240 <= c /\ c <= 244
        THEN (IF /\ (IF c = 240 THEN 144 ELSE 128) <= g(1)
                 /\ g(1) <= (IF c = 244 THEN 143 ELSE 191)
                 /\ IsCont(g(2)) /\ IsCont(g(3))
              THEN 4 ELSE 0)
        ELSE 0

\* the code point of the well-formed sequence that starts at byte j of b
Utf8CodePoint(b, j) ==
    CASE Utf8SeqLen(b, j) = 1 -> b[j]
      [] Utf8SeqLen(b, j) = 2 -> (b[j] % 32) * 64 + (b[j + 1] % 64)
      [] Utf8SeqLen(b, j) = 3 ->
             (b[j] % 16) * 4096 + (b[j + 1] % 64) * 64 + (b[j + 2] % 64)
      [] OTHER -> (b[j] % 8) * 262144 + (b[j + 1] % 64) * 4096 + (b[j + 2] % 64) * 64
                    + (b[j + 3] % 64)

\* line 101: bytes.decode('utf-8', errors='ignore'): the well-formed sequences
\* give their code points, every other byte is dropped.  A lead byte is never a
\* continuation byte, so no well-formed sequence starts inside another.
decode_utf8_ignore(b) ==
    LET idx == SelectSeq(Positions(b), LAMBDA j : Utf8SeqLen(b, j) > 0)
    IN  [k \in 1..Len(idx) |-> Utf8CodePoint(b, idx[k])]

\* the ValueError of line 61
TooShortError == [ok |-> FALSE, error |-> "ValueError", raised_at |-> "length"]

\* a length check that refuses the bare IV too
TooShortInclusive(ciphertext) == Len(ciphertext) <= BlockSize

\* line 60
TooShort(ciphertext) == Len(ciphertext) < BlockSize

\* lines 50-54
padded_value(obscured_value) ==
    IF Len(obscured_value) % 4 # 0
    THEN obscured_value \o [i \in 1..(4 - (Len(obscured_value) % 4)) |-> "="]
    ELSE obscured_value

\* lines 45-101
reveal(obscured_value) ==
    LET decoded == urlsafe_b64decode(padded_value(obscured_value))
        ciphertext == decoded.bytes
        iv == SubSeq(ciphertext, 1, BlockSize)
        encrypted_data == SubSeq(ciphertext, BlockSize + 1, Len(ciphertext))
    IN  IF ~decoded.ok THEN [ok |-> FALSE, error |-> "ValueError", raised_at |-> "base64"]
        ELSE IF TooShort(ciphertext) THEN TooShortError
        ELSE [ok |-> TRUE, text |-> decode_utf8_ignore(decrypt_from(iv, encrypted_data, 0))]

\* base64 without padding of a byte sequence (Go's RawURLEncoding)
RawUrlEncode(b) ==
    [c \in 1..((8 * Len(b) + 5) \div 6) |->
        LET i == (6 * (c - 1)) \div 8
            o == (6 * (c - 1)) % 8
            hi == b[i + 1]
            lo == IF i + 2 <= Len(b) THEN b[i + 2] ELSE 0
        IN  B64Alphabet[(((hi * 256 + lo) \div (2 ^ (10 - o))) % 64) + 1]]

\* the inverse construction: the IV, then each plaintext byte XORed with the
\* keystream byte of its position, in unpadded URL-safe base64
Encode(iv, plaintext) ==
    RawUrlEncode(iv \o [k \in 1..Len(plaintext) |->
        Xor(plaintext[k], keystream(iv, (k - 1) \div BlockSize)[((k - 1) % BlockSize) + 1])])

\* initialisation vectors: all zero; a counter that wraps to zero after the
\* first block; a carry into the next byte after the first block
IVs ==
    { [k \in 1..16 |-> 0],
      [k \in 1..16 |-> IF k <= 8 THEN k ELSE 255],
      [k \in 1..16 |-> IF k = 16 THEN 255 ELSE 16 + k] }

\* plaintexts: empty, shorter than a block, one block, one byte more, two blocks
\* and a byte, a two-byte and a three-byte character, and bytes that are not UTF-8
Plaintexts ==
    { <<>>,
      <<104, 105>>,
      [k \in 1..15 |-> 96 + k],
      [k \in 1..16 |-> 96 + k],
      [k \in 1..17 |-> 96 + k],
      [k \in 1..33 |-> 64 + k],
      <<195, 169>>,
      <<226, 130, 172, 33>>,
      <<255>>,
      <<97, 128, 98>>,
      <<112, 195>> }


NoRev == [rpc |-> "off"]

\* an obscured password is made from an IV and a plaintext
RevEncode ==
    /\ rev.rpc = "new"
    /\ \E iv \in IVs, p \in Plaintexts :
         rev' = [rpc |-> "built", iv |-> iv, plain |-> p, obscured |-> Encode(iv, p),
                 tampered |-> FALSE]
    /\ UNCHANGED <<main, counts, scrub, aux2>>

\* the obscured string is cut short
RevTruncate ==
    /\ rev.rpc = "built" /\ ~rev.tampered
    /\ \E n \in 0..(Len(rev.obscured) - 1) :
         rev' = [rev EXCEPT !.obscured = SubSeq(@, 1, n), !.tampered = TRUE]
    /\ UNCHANGED <<main, counts, scrub, aux2>>

\* one character is inserted into the obscured string
RevInsert ==
    /\ rev.rpc = "built" /\ ~rev.tampered
    /\ \E n \in 0..Len(rev.obscured), c \in {"!", "=", "+", EAcute} :  \* no base64 alphabet, padding, standard alphabet only, not ASCII
         rev' = [rev EXCEPT !.obscured = SubSeq(@, 1, n) \o <<c>> \o SubSeq(@, n + 1, Len(@)),
                            !.tampered = TRUE]
    /\ UNCHANGED <<main, counts, scrub, aux2>>

\* reveal is called with the string
RevReveal ==
    /\ rev.rpc = "built"
    /\ rev' = [rpc |-> "revealed", iv |-> rev.iv, plain |-> rev.plain,
               obscured |-> rev.obscured, tampered |-> rev.tampered,
               out |-> reveal(rev.obscured)]
    /\ UNCHANGED <<main, counts, scrub, aux2>>

----------------------------------------------------------------------------
(* rclone/rclone_decrypt_pass.py : get_remote_config                       *)
(* A store is a file of lines: a section header or an option.  Option      *)
(* names and values are text; a returned pass is the text reveal returns.  *)

\* the places line 137 and lines 146-207 look at, in the order the code
\* looks at them
Candidates ==
    << "RCLONE_CONFIG",        \* line 137: the file the variable names
       "cwd/rclone.conf",      \* line 146
       "script_dir/rclone.conf", \* line 153: beside rclone_decrypt_pass.py
       "exe_dir/rclone.conf",  \* line 161: beside sys.executable
       "APPDATA/rclone/rclone.conf",           \* line 172
       "XDG_CONFIG_HOME/rclone/rclone.conf",   \* line 179
       "~/.config/rclone/rclone.conf",         \* line 187
       "~/.rclone.conf",       \* line 197
       "cwd/.rclone.conf" >>   \* line 205

Locations == { Candidates[i] : i \in 1..Len(Candidates) }

\* what a path holds when it is not a file
Absent == [kind |-> "absent"]

PassKey == <<"p","a","s","s">>

\* a string too short to be an obscured password
ShortPass == <<"Y","Q">>

\* a remote without a password
HostStore ==
    [kind |-> "file",
     lines |-> << [section |-> "r"],
                  [key |-> <<"t","y","p","e">>, value |-> <<"s","f","t","p">>],
                  [key |-> <<"h","o","s","t">>, value |-> <<"h","1">>] >>]

\* remotes with a password that decodes (the obscured "hi"), one that does
\* not, and one that is a lone percent sign
PassStore ==
    [kind |-> "file",
     lines |-> << [section |-> "r"],
                  [key |-> <<"u","s","e","r">>, value |-> <<"u","1">>],
                  [key |-> <<"P","a","s","s">>,
                   value |-> Encode([k \in 1..16 |-> 0], <<104, 105>>)],
                  [section |-> "s"],
                  [key |-> <<"u","s","e","r">>, value |-> <<"u","2">>],
                  [key |-> PassKey, value |-> ShortPass],
                  [section |-> "p"],
                  [key |-> PassKey, value |-> <<"%">>] >>]

\* what is put at a place: a directory, a file with an option before any
\* section header, the two stores
StoreContents ==
    { [kind |-> "directory"],
      [kind |-> "file",
       lines |-> << [key |-> <<"t","y","p","e">>, value |-> <<"s","f","t","p">>],
                    [section |-> "r"] >>],
      HostStore, PassStore }

\* os.path.exists
Exists(fs, path) == path \in Locations /\ fs[path] # Absent

\* lines 146-207: each candidate that exists is appended, in this order; the
\* APPDATA candidate only on Windows with the variable set, the XDG candidate
\* only with the variable set
possible_paths(fs, env) ==
    SelectSeq(SubSeq(Candidates, 2, Len(Candidates)),
              LAMBDA path :
                  /\ path = "APPDATA/rclone/rclone.conf"
                        => env.platform = "win32" /\ env.APPDATA
                  /\ path = "XDG_CONFIG_HOME/rclone/rclone.conf"
                        => env.XDG_CONFIG_HOME
                  /\ Exists(fs, path))

\* a search that looks beside the executable before the working directory
find_config_path_exe_first(fs, env) ==
    LET paths == possible_paths(fs, env)
        beside == SelectSeq(paths, LAMBDA p : p \in {"script_dir/rclone.conf", "exe_dir/rclone.conf"})
        others == SelectSeq(paths, LAMBDA p : p \notin {"script_dir/rclone.conf", "exe_dir/rclone.conf"})
    IN  IF env.RCLONE_CONFIG /\ Exists(fs, "RCLONE_CONFIG") THEN "RCLONE_CONFIG"
        ELSE IF paths = <<>> THEN "None"
        ELSE Head(beside \o others)

\* lines 135-219 with config_path None: the path found, or "None"
find_config_path(fs, env) ==
    LET paths == possible_paths(fs, env)
        existing == SelectSeq(paths, LAMBDA p : Exists(fs, p))
    IN  IF env.RCLONE_CONFIG /\ Exists(fs, "RCLONE_CONFIG") THEN "RCLONE_CONFIG"
        ELSE IF existing = <<>> THEN "None"
        ELSE Head(existing)

\* configparser.ConfigParser.read (line 227): a path that cannot be opened is
\* skipped without an error; an option before the first header, or a section
\* or option named twice, raises; option names are lower-cased
config_read(content) ==
    IF content.kind # "file" THEN [raised |-> "none", names |-> {}, options |-> <<>>]
    ELSE
    LET lines == content.lines
        headers == { i \in 1..Len(lines) : "section" \in DOMAIN lines[i] }
        names == { lines[i].section : i \in headers }
        OptionsOf(h) ==
            { i \in (h + 1)..Len(lines) :
                /\ i \notin headers
                /\ \A j \in headers : ~(h < j /\ j < i) }
    IN  IF \E i \in 1..Len(lines) : i \notin headers /\ \A h \in headers : h > i
        THEN [raised |-> "MissingSectionHeaderError"]
        ELSE IF \E h, j \in headers : h # j /\ lines[h].section = lines[j].section
        THEN [raised |-> "DuplicateSectionError"]
        ELSE IF \E h \in headers : \E i, j \in OptionsOf(h) :
                    i # j /\ Lower(lines[i].key) = Lower(lines[j].key)
        THEN [raised |-> "DuplicateOptionError"]
        ELSE [raised |-> "none", names |-> names,
              options |->
                 [n \in names |->
                    LET h == CHOOSE i \in headers : lines[i].section = n
                    IN  [i \in 1..Cardinality(OptionsOf(h)) |->
                           [key |-> Lower(lines[h + i].key), value |-> lines[h + i].value]]]]

\* BasicInterpolation, applied to every value by items() (line 237): a
\* percent sign must be followed by a percent sign or by a parenthesis; a
\* doubled percent sign is one.  No value here refers to another option.
interpolate(value) ==
    LET IsStart(i) ==
            /\ value[i] = "%"
            /\ LET run == { n \in 0..(i - 1) : \A j \in (i - n)..(i - 1) : value[j] = "%" }
                   before == CHOOSE n \in run : \A m \in run : m <= n
               IN  (before % 2) = 0
    IN  IF \E i \in 1..Len(value) :
              IsStart(i) /\ (i = Len(value) \/ value[i + 1] # "%")
        THEN [raised |-> "InterpolationSyntaxError"]
        ELSE [raised |-> "none",
              value |-> SelectSeq([i \in 1..Len(value) |-> IF IsStart(i) THEN "" ELSE value[i]],
                                  LAMBDA c : c # "")]

ProfileError(where) == [ok |-> FALSE, error |-> "ValueError", raised_at |-> where]

\* a loader that keeps the stored value when reveal raises
config_value_keeping_ciphertext(key, value) ==
    IF key = PassKey /\ reveal(value).ok
    THEN [raised |-> "none", value |-> reveal(value).text]
    ELSE [raised |-> "none", value |-> value]

\* lines 238-245: the value put into config_dict for one option, or the
\* exception of reveal
config_value(key, value) ==
    IF key = PassKey
    THEN IF reveal(value).ok THEN [raised |-> "none", value |-> reveal(value).text]
         ELSE [raised |-> "ValueError"]
    ELSE [raised |-> "none", value |-> value]

\* lines 131-247: the options are taken in the order of the file, and the
\* first one that raises ends the call.  The outcome is the exception or the
\* returned config_dict, with the value config_path had at the end.
get_remote_config(fs, env, config_path, remote_name) ==
    LET path == IF config_path = "None" THEN find_config_path(fs, env) ELSE config_path
        config == config_read(fs[path])
        items == config.options[remote_name]
        got == [i \in 1..Len(items) |->
                  LET v == interpolate(items[i].value)
                  IN  IF v.raised # "none" THEN v ELSE config_value(items[i].key, v.value)]
        raising == { i \in 1..Len(items) : got[i].raised # "none" }
        first == CHOOSE i \in raising : \A j \in raising : i <= j
        at(outcome, p) == outcome @@ [config_path |-> p]
    IN  IF remote_name = "" THEN at(ProfileError("remote_name"), config_path)
        ELSE at(
        IF path = "None" THEN ProfileError("search")
        ELSE IF ~Exists(fs, path) THEN ProfileError("exists")
        ELSE IF config.raised # "none" THEN ProfileError("read")
        ELSE IF remote_name \notin config.names THEN ProfileError("section")
        ELSE IF raising # {} /\ got[first].raised = "ValueError" THEN ProfileError("pass")
        ELSE IF raising # {}
        THEN [ok |-> FALSE, error |-> got[first].raised, raised_at |-> "items"]
        ELSE [ok |-> TRUE,
              config_dict |-> [k \in { items[i].key : i \in 1..Len(items) } |->
                                 got[CHOOSE i \in 1..Len(items) : items[i].key = k].value]],
        path)

NoProf == [ppc |-> "off"]

\* a file or a directory appears at one of the places
ProfWrite ==
    /\ prof.ppc = "setup"
    /\ Cardinality({ l \in Locations : prof.fs[l] # Absent }) < MaxStores
    /\ \E l \in Locations, c \in StoreContents :
         /\ prof.fs[l] = Absent
         /\ prof' = [prof EXCEPT !.fs[l] = c]
    /\ UNCHANGED <<main, counts, scrub, rev, conc>>

\* get_remote_config is called: without a path for every remote name (no
\* store has a section q), with a path (a candidate place, or a path that
\* does not exist) for the remote r
GetRemoteConfig ==
    /\ prof.ppc = "setup"
    /\ \E config_path \in {"None", "~/.rclone.conf", "nowhere"},
          remote_name \in {"r", "s", "p", "q", ""} :
         /\ config_path # "None" => remote_name = "r"
         /\ prof' = [ppc |-> "returned", env |-> prof.env, fs |-> prof.fs,
                     config_path |-> config_path, remote_name |-> remote_name,
                     out |-> get_remote_config(prof.fs, prof.env, config_path, remote_name)]
    /\ UNCHANGED <<main, counts, scrub, rev, conc>>

----------------------------------------------------------------------------
(* Callers that run ensure_remote_directory_exists for the same remote     *)
(* directory at the same time, each in its own thread.  The flag           *)
(* execute_rclone_command._diagnostics_logged and the remote are shared;   *)
(* the position, the command and the result are each caller's own.  Every *)
(* caller has a host name and an executable, and the remote answers each   *)
(* command according to the directories it holds when the command runs.    *)

Callers == 1..MaxCallers

NoConc == [on |-> FALSE]

\* the directory all callers ask for
SharedPath == 1

\* rclone_operations.py lines 35-47: a caller enters
\* ensure_remote_directory_exists and calls execute_rclone_command for lsd
ConcEnsure(c) ==
    /\ conc.on /\ conc.callers[c].cpc = "idle"
    /\ conc' = [conc EXCEPT
                  !.callers[c].cpc = "check",
                  !.overlapped = @ \/ \E d \in Callers \ {c} :
                                          conc.callers[d].cpc \notin {"idle", "done"}]
    /\ UNCHANGED <<main, counts, scrub, rev, prof>>

\* a test of the flag that always finds it unset
ConcCheckIgnoresFlag(c) ==
    /\ conc.on /\ conc.callers[c].cpc = "check"
    /\ conc' = [conc EXCEPT !.callers[c].cpc = "log"]
    /\ UNCHANGED <<main, counts, scrub, rev, prof>>

\* rclone_executor.py line 105: hasattr(execute_rclone_command, '_diagnostics_logged')
ConcCheck(c) ==
    /\ conc.on /\ conc.callers[c].cpc = "check"
    /\ conc' = [conc EXCEPT !.callers[c].cpc = IF diagnostics_logged THEN "run" ELSE "log"]
    /\ UNCHANGED <<main, counts, scrub, rev, prof>>

\* lines 106-107: the diagnostics are collected and logged
ConcLog(c) ==
    /\ conc.on /\ conc.callers[c].cpc = "log"
    /\ conc' = [conc EXCEPT !.callers[c].cpc = "set", !.callers[c].logged = @ + 1,
                            !.logs = @ + 1]
    /\ UNCHANGED <<main, counts, scrub, rev, prof>>

\* line 108: the flag is set
ConcSet(c) ==
    /\ conc.on /\ conc.callers[c].cpc = "set"
    /\ diagnostics_logged' = TRUE
    /\ conc' = [conc EXCEPT !.callers[c].cpc = "run"]
    /\ UNCHANGED <<pc, call, child, locals, result, caller, ens, tool, remoteDirs, hist,
                   counts, scrub, rev, prof>>

\* rclone_executor.py lines 110-235: the results of the commands, by command
\* and by whether the directory exists when the command runs.  lsd exits 0
\* for a directory that exists and reports "directory not found" otherwise;
\* mkdir creates a missing directory, and for one that exists it exits 0 or
\* fails with one of rclone's already-exists messages.
RemoteResults ==
    LET Built(s) == [success |-> (s.code = 0), exit_code |-> s.code,
                     stdout |-> Scrub(DecodeReplace(s.out)),
                     stderr |-> OrNone(Scrub(ConvertStderr(s.err)))]
        Lsd(dirs) == Scripts([cmd |-> "lsd", path |-> SharedPath], dirs)
        Mkdir == Scripts([cmd |-> "mkdir", path |-> SharedPath], {})
    IN  [lsd |-> [exists \in BOOLEAN |->
                    IF exists THEN { Built(s) : s \in { x \in Lsd({SharedPath}) : x.code = 0 } }
                    ELSE { Built(s) : s \in { x \in Lsd({}) :
                                                x.err = Chars("ERROR : directory not found") } }],
         mkdir |-> [exists \in BOOLEAN |->
                    { Built(s) : s \in { x \in Mkdir :
                         \/ x.code = 0
                         \/ exists /\ IsAlreadyExists(Scrub(ConvertStderr(x.err))) } }]]

\* lines 110-235: the caller's child runs against the remote and the result
\* is built
ConcRun(c) ==
    /\ conc.on /\ conc.callers[c].cpc = "run"
    /\ \E r \in RemoteResults[conc.callers[c].cmd][(SharedPath \in remoteDirs)] :
         /\ conc' = [conc EXCEPT !.callers[c].cpc = "decide", !.callers[c].result = r]
         /\ remoteDirs' = IF conc.callers[c].cmd = "mkdir" /\ r.success
                          THEN remoteDirs \cup {SharedPath} ELSE remoteDirs
    /\ UNCHANGED <<pc, call, child, locals, result, diagnostics_logged, caller, ens, tool,
                   hist, counts, scrub, rev, prof>>

\* rclone_operations.py lines 49-100: the probe's result decides between
\* returning and calling execute_rclone_command for mkdir; the creation
\* command's result gives the value returned
ConcDecide(c) ==
    /\ conc.on /\ conc.callers[c].cpc = "decide"
    /\ LET me == conc.callers[c]
       IN  conc' = [conc EXCEPT !.callers[c] =
              IF me.cmd = "mkdir"
              THEN [me EXCEPT !.cpc = "done", !.ret = MkdirVerdict(me.result)]
              ELSE IF ProbeSucceeded(me.result)
              THEN [me EXCEPT !.cpc = "done", !.ret = TRUE]
              ELSE IF ~IsDirectoryNotFound(StderrOf(me.result))
              THEN [me EXCEPT !.cpc = "done", !.ret = FALSE]
              ELSE [me EXCEPT !.cpc = "check", !.cmd = "mkdir"]]
    /\ UNCHANGED <<main, counts, scrub, rev, prof>>

----------------------------------------------------------------------------
(* The program *)

Init ==
    /\ pc = "idle"
    /\ call = NoCall
    /\ child = NoChild
    /\ locals = NoLocals
    /\ result = NoResult
    /\ diagnostics_logged = FALSE
    /\ caller = "none"
    /\ ens = NoEns(NoPrev)
    /\ tool = NoTool
    /\ remoteDirs \in SUBSET Paths
    /\ hist = NoHist
    /\ counts = NoCounts
    /\ scrub = NoScrub
    /\ rev = NoRev
    /\ prof = NoProf
    /\ conc = NoConc

Next ==
    \/ Exec \/ DirectCall \/ DirectReturn
    \/ EnsureStart \/ EnsureAfterProbe \/ EnsureAfterMkdir \/ EnsureReturn
    \/ ReadStart \/ ReadFinish \/ ReadReturn

Spec == Init /\ [][Next]_vars

\* calls made one after another by a caller that counts them
NextCount == Exec \/ CountedCall \/ CountedReturn

SpecCount == Init /\ [][NextCount]_vars

\* the tools that transfer: sync_directory and upload_file
NextTransfer ==
    \/ Exec \/ EnsureAfterProbe \/ EnsureAfterMkdir
    \/ XferStart \/ XferAfterEnsure \/ XferFinish \/ ReadReturn

SpecTransfer == Init /\ [][NextTransfer]_vars

\* the runner idle, and a text about to be built for the ANSI scrubber
InitScrub ==
    /\ pc = "idle"
    /\ call = NoCall
    /\ child = NoChild
    /\ locals = NoLocals
    /\ result = NoResult
    /\ diagnostics_logged = FALSE
    /\ caller = "none"
    /\ ens = NoEns(NoPrev)
    /\ tool = NoTool
    /\ remoteDirs = {}
    /\ hist = NoHist
    /\ counts = NoCounts
    /\ scrub = [spc |-> "build", plain |-> <<>>, text |-> <<>>, inserted |-> 0, out |-> <<>>]
    /\ rev = NoRev
    /\ prof = NoProf
    /\ conc = NoConc

NextScrub == ScrubAppendChar \/ ScrubInsertCsi \/ ScrubApply

SpecScrub == InitScrub /\ [][NextScrub]_vars

\* the runner idle, and an obscured password about to be made for reveal
InitReveal ==
    /\ pc = "idle"
    /\ call = NoCall
    /\ child = NoChild
    /\ locals = NoLocals
    /\ result = NoResult
    /\ diagnostics_logged = FALSE
    /\ caller = "none"
    /\ ens = NoEns(NoPrev)
    /\ tool = NoTool
    /\ remoteDirs = {}
    /\ hist = NoHist
    /\ counts = NoCounts
    /\ scrub = NoScrub
    /\ rev = [rpc |-> "new"]
    /\ prof = NoProf
    /\ conc = NoConc

NextReveal == RevEncode \/ RevTruncate \/ RevInsert \/ RevReveal

SpecReveal == InitReveal /\ [][NextReveal]_vars

\* the runner idle, sys.platform and the environment variables that are set,
\* and no rclone.conf anywhere yet
InitProfile ==
    /\ pc = "idle"
    /\ call = NoCall
    /\ child = NoChild
    /\ locals = NoLocals
    /\ result = NoResult
    /\ diagnostics_logged = FALSE
    /\ caller = "none"
    /\ ens = NoEns(NoPrev)
    /\ tool = NoTool
    /\ remoteDirs = {}
    /\ hist = NoHist
    /\ counts = NoCounts
    /\ scrub = NoScrub
    /\ rev = NoRev
    /\ \E env \in [platform : {"win32", "linux"}, RCLONE_CONFIG : BOOLEAN,
                    APPDATA : BOOLEAN, XDG_CONFIG_HOME : BOOLEAN] :
         prof = [ppc |-> "setup", env |-> env, fs |-> [l \in Locations |-> Absent]]
    /\ conc = NoConc

NextProfile == ProfWrite \/ GetRemoteConfig

SpecProfile == InitProfile /\ [][NextProfile]_vars

\* the flag unset, the directory missing on the remote, and every caller
\* about to call
InitConcurrent ==
    /\ pc = "idle"
    /\ call = NoCall
    /\ child = NoChild
    /\ locals = NoLocals
    /\ result = NoResult
    /\ diagnostics_logged = FALSE
    /\ caller = "none"
    /\ ens = NoEns(NoPrev)
    /\ tool = NoTool
    /\ remoteDirs = {}
    /\ hist = NoHist
    /\ counts = NoCounts
    /\ scrub = NoScrub
    /\ rev = NoRev
    /\ prof = NoProf
    /\ conc = [on |-> TRUE, logs |-> 0, overlapped |-> FALSE,
               callers |-> [c \in Callers |->
                              [cpc |-> "idle", cmd |-> "lsd", logged |-> 0,
                               result |-> NoResult, ret |-> FALSE]]]

NextConcurrent ==
    \E c \in Callers :
       ConcEnsure(c) \/ ConcCheck(c) \/ ConcLog(c) \/ ConcSet(c) \/ ConcRun(c) \/ ConcDecide(c)

SpecConcurrent == InitConcurrent /\ [][NextConcurrent]_vars


----------------------------------------------------------------------------
(* Properties *)

\* an ANSI escape sequence starts at position i of t: ESC and a byte of @-Z or
\* \-_, or ESC [ with parameter bytes, then intermediate bytes, then a final byte
AnsiSequenceAt(t, i) ==
    /\ t[i] = ESC
    /\ i + 1 <= Len(t)
    /\ \/ t[i + 1] \in FeChars
       \/ /\ t[i + 1] = "["
          /\ \E j \in (i + 2)..Len(t) :
               /\ t[j] \in FinalChars
               /\ \E m \in (i + 2)..j :
                    /\ \A k \in (i + 2)..(m - 1) : t[k] \in ParamChars
                    /\ \A k \in m..(j - 1) : t[k] \in InterChars

HasAnsiSequence(t) == \E i \in 1..Len(t) : AnsiSequenceAt(t, i)

TimedOutCall == pc = "returned" /\ hist.timed_out

\* C1: a call whose child exceeded the timeout returns a result flagged as timed
\* out that carries the stdout and stderr captured up to the end of the post-kill
\* drain (stdout as bytes in binary mode, decoded and scrubbed in text mode;
\* stderr decoded and scrubbed).
C1_TimeoutResultKeepsPartialOutput ==
    TimedOutCall =>
        /\ ~result.success
        /\ Get(result, "exit_code", 0) = -1
        /\ Get(result, "stdout", <<>>) =
             (IF call.binary THEN hist.captured_out
              ELSE Scrub(DecodeReplace(hist.captured_out)))
        /\ StderrOf(result) = Scrub(DecodeReplace(hist.captured_err))

\* C2: a call whose child had not exited when the timeout elapsed returns
\* success=false with exit code -1 and an error text naming the timeout,
\* process.kill() has been called, and the child is not running when the call
\* returns, also when the post-kill drain fails.
C2_TimeoutKillsChild ==
    TimedOutCall =>
        /\ ~result.success
        /\ "exit_code" \in DOMAIN result /\ result.exit_code = -1
        /\ "error" \in DOMAIN result /\ Contains(result.error, Chars("timed out"))
        /\ hist.kill_called
        /\ child.state \in {"killed", "exited"}

C2_Witness ==
    /\ TimedOutCall
    /\ hist.running_at_timeout
    /\ hist.drain_failed
    /\ child.wErr > 0

ProbeDone == ens.epc \in {"creating", "done"} /\ ens.probe # NoResult

NoNotFoundSubstring(t) == \A k \in NotFoundKeywords : ~Contains(Lower(t), k)

\* C3: when the listing probe failed and its scrubbed stderr holds none of the
\* not-found substrings in any letter case (a probe that timed out or was not
\* spawned has no stderr at all), no mkdir command is issued and the call
\* returns False.
C3_OtherProbeFailureNeverCreates ==
    (ProbeDone /\ ~ens.probe.success /\ NoNotFoundSubstring(StderrOf(ens.probe))) =>
        /\ ens.epc = "done"
        /\ ens.ret = FALSE
        /\ ens.issued = <<"lsd">>
        /\ call.cmd # "mkdir"

C3_Witness ==
    /\ ens.epc = "done"
    /\ ens.probe # NoResult
    /\ ~ens.probe.success
    /\ StderrOf(ens.probe) = Chars("permission denied")
    /\ ens.ret = FALSE

MkdirDone == ens.epc = "done" /\ ens.mkdir # NoResult

HasAlreadyExistsSubstring(t) == \E k \in AlreadyExistsKeywords : Contains(Lower(t), k)

\* C4: after a not-found probe, a failed creation returns True exactly when its
\* stderr holds an already-exists substring in any letter case, and False
\* otherwise.
C4_FailedCreationVerdict ==
    (MkdirDone /\ ~ens.mkdir.success) =>
        ens.ret = HasAlreadyExistsSubstring(StderrOf(ens.mkdir))

C4_Witness ==
    /\ MkdirDone
    /\ ~ens.mkdir.success
    /\ StderrOf(ens.mkdir) = Chars("Directory Already Exists")
    /\ ens.ret = TRUE

\* C5: when the probe failed with a not-found style stderr and the creation
\* command succeeded, the call returns True.
C5_CreatedReturnsTrue ==
    (MkdirDone /\ ~ens.probe.success /\ ~NoNotFoundSubstring(StderrOf(ens.probe))
       /\ ens.mkdir.success) =>
        ens.ret = TRUE

C5_Witness ==
    /\ MkdirDone
    /\ ~ens.probe.success
    /\ StderrOf(ens.probe) = Chars("ERROR : directory not found")
    /\ ens.mkdir.success
    /\ ~ens.existed
    /\ ens.path \in remoteDirs
    /\ ens.ret = TRUE

\* C6: when the listing probe succeeds the call returns True and the probe is
\* the only command it issues.
C6_ProbeSuccessNoCreate ==
    (ProbeDone /\ ens.probe.success) =>
        /\ ens.epc = "done"
        /\ ens.ret = TRUE
        /\ ens.issued = <<"lsd">>
        /\ ens.mkdir = NoResult

C6_Witness ==
    /\ ens.epc = "done"
    /\ ens.probe # NoResult
    /\ ens.probe.success
    /\ ~ens.was_ok
    /\ ens.ret = TRUE

C8_ReturnedStderrHasNoAnsi ==
    (pc = "returned" /\ "stderr" \in DOMAIN result /\ result.stderr # None) =>
        ~HasAnsiSequence(result.stderr)

IsDecodedText(t) == \A i \in 1..Len(t) : t[i] \notin {BadByte, LeadByte, ContByte}

\* C9: in binary mode the stdout of the result is the byte sequence the child
\* wrote, unchanged, and the stderr of the same result is the child's stderr
\* decoded (invalid bytes replaced) and scrubbed.
C9_BinaryStdoutIsRaw ==
    (pc = "returned" /\ call.binary /\ "stdout" \in DOMAIN result) =>
        /\ result.stdout = child.out
        /\ IsDecodedText(StderrOf(result))
        /\ StderrOf(result) = strip_ansi_codes(DecodeReplace(child.err))

C9_Witness ==
    /\ pc = "returned"
    /\ call.binary
    /\ "stdout" \in DOMAIN result
    /\ result.stdout = <<"a", BadByte, ESC, "M">>
    /\ child.err = <<ESC, ESC, "A", "A">>

\* C10: the content read_remote_file returns is the decoding of exactly the
\* bytes the child wrote to stdout, ESC bytes included, and file_size is the
\* number of those bytes.
C10_ReadBackIsUnmodified ==
    (tool.tpc = "done" /\ tool.read /\ "content" \in DOMAIN tool.ret) =>
        /\ tool.ret.content = DecodeStrict(tool.bytes)
        /\ tool.ret.file_size = Len(tool.bytes)

\* C11: when execute_rclone_command has returned, the parent holds no pipe
\* handle of a child open, whichever way the call ended; a call whose Popen
\* raised has no child and no handle
C11_StreamsClosedOnReturn ==
    pc = "returned" =>
        /\ child.open = {}
        /\ hist.raised = "spawn" => child = NoChild

\* a call whose communicate() raised, or whose drain after the timeout raised,
\* has returned: only the finally block can have closed its pipes
C11_Witness ==
    /\ pc = "returned"
    /\ child.state # "none"
    /\ hist.drain_failed \/ hist.raised = "communicate"
    /\ child.open = {}


\* C12: every returned result with success = false carries an exit code, which
\* is the child's own non-zero exit code or the sentinel
C12_FailureCarriesExitCode ==
    pc = "returned" /\ ~result.success =>
        /\ "exit_code" \in DOMAIN result
        /\ \/ result.exit_code = -1
           \/ child.state = "exited" /\ result.exit_code = child.code /\ child.code # 0

\* the call passed both precondition checks of lines 77-87
PassedPreconditions == call.cmd # "none" /\ call.host_set /\ call.exe # "missing"

\* C13 as stated: every returned call that passed its precondition checks has
\* started exactly one child
C13_ExactlyOneChild ==
    pc = "returned" /\ PassedPreconditions => hist.spawned = 1

\* C13 amended: a call invokes Popen at most once, exactly once when it has
\* passed its precondition checks and got as far as returning, never when it was
\* rejected; it has started one child unless that Popen raised, and then none;
\* over a sequence of calls the children started never exceed the calls made
C13_OneSpawnAttemptPerCall ==
    /\ hist.popen_calls <= 1
    /\ hist.spawned <= hist.popen_calls
    /\ pc = "returned" /\ PassedPreconditions =>
          /\ hist.popen_calls = 1
          /\ hist.spawned = IF hist.raised = "spawn" THEN 0 ELSE 1
    /\ pc = "returned" /\ ~PassedPreconditions => hist.popen_calls = 0
    /\ counts.spawned + hist.spawned <= counts.calls

\* the last call of a full sequence has timed out and returned, after a call
\* that started a child and a call that started none
C13_Witness ==
    /\ pc = "returned" /\ hist.timed_out
    /\ counts.calls = MaxCalls
    /\ counts.spawned = 1 /\ hist.spawned = 1

\* the three failure outcomes, told apart by what a caller can read in the result
IsTimeoutOutcome(r) ==
    /\ "error" \in DOMAIN r /\ Contains(r.error, Chars(" timed out after "))
    /\ "exit_code" \in DOMAIN r /\ r.exit_code = -1
IsNotFoundOutcome(r) ==
    /\ "error" \in DOMAIN r
    /\ \/ Contains(r.error, Chars("rclone executable not found"))
       \/ Contains(r.error, Chars("RCLONE_EXE_PATH specified but file does not exist"))
IsExecutionErrorOutcome(r) ==
    "error" \in DOMAIN r /\ Contains(r.error, Chars(" failed: "))
OutcomesOf(r) ==
    {k \in {"timeout", "not_found", "execution_error"} :
        \/ k = "timeout" /\ IsTimeoutOutcome(r)
        \/ k = "not_found" /\ IsNotFoundOutcome(r)
        \/ k = "execution_error" /\ IsExecutionErrorOutcome(r)}

C15_StripRestoresPlainText ==
    /\ scrub.spc = "stripped" => scrub.out = scrub.plain
    /\ strip_ansi_codes(Csi("31", "m") \o Chars("ERROR") \o Csi("0", "m")) = Chars("ERROR")
    /\ strip_ansi_codes(Csi("2", "K") \o Csi("1;1", "H")) = <<>>

\* a text of MaxPlain characters with MaxInserted sequences, the first at its
\* start and the last at its end, has been scrubbed
C15_Witness ==
    /\ scrub.spc = "stripped"
    /\ Len(scrub.plain) = MaxPlain /\ scrub.inserted = MaxInserted
    /\ scrub.text[1] = ESC /\ scrub.text[Len(scrub.text)] \notin PlainChars \ {"m"}
    /\ Len(scrub.text) > Len(scrub.plain) + 4
    /\ scrub.out = scrub.plain

\* C16: no string of an error value that read_remote_file returns holds an ANSI
\* escape sequence
C16_ErrorValuesHaveNoAnsi ==
    tool.tpc = "done" /\ "error" \in DOMAIN tool.ret =>
        \A k \in DOMAIN tool.ret \cap TextKeys : ~HasAnsiSequence(tool.ret[k])

\* the string is unpadded URL-safe base64: only characters of the URL-safe
\* alphabet, and not one character more than a multiple of four
IsValidUnpaddedUrlSafe(t) ==
    /\ \A i \in 1..Len(t) : t[i] \in UrlSafeChars
    /\ Len(t) % 4 # 1

\* C17: reveal raises its ValueError for every input that decodes to fewer
\* than 16 bytes, and returns the empty text for an input that decodes to
\* exactly 16 bytes
C17_ShortInputIsFormatError ==
    rev.rpc = "revealed" =>
        /\ (\A i \in 1..Len(rev.obscured) : rev.obscured[i] \in UrlSafeChars) =>
              /\ (6 * Len(rev.obscured)) \div 8 < BlockSize =>
                    ~rev.out.ok /\ rev.out.error = "ValueError"
              /\ IsValidUnpaddedUrlSafe(rev.obscured)
                   /\ (6 * Len(rev.obscured)) \div 8 < BlockSize => rev.out = TooShortError
              /\ (6 * Len(rev.obscured)) \div 8 = BlockSize =>
                    rev.out = [ok |-> TRUE, text |-> <<>>]
        /\ LET decoded == urlsafe_b64decode(padded_value(rev.obscured))
           IN  /\ decoded.ok /\ Len(decoded.bytes) < BlockSize => rev.out = TooShortError
               /\ decoded.ok /\ Len(decoded.bytes) = BlockSize =>
                     rev.out = [ok |-> TRUE, text |-> <<>>]

\* an obscured string cut to 20 characters, 15 bytes, has been refused as too short
C17_Witness ==
    /\ rev.rpc = "revealed" /\ rev.tampered
    /\ IsValidUnpaddedUrlSafe(rev.obscured) /\ Len(rev.obscured) = 20
    /\ rev.out = TooShortError

\* C18: reveal raises its ValueError for every input that is not valid
\* unpadded URL-safe base64
C18_InvalidBase64IsRefused ==
    rev.rpc = "revealed" /\ ~IsValidUnpaddedUrlSafe(rev.obscured) => ~rev.out.ok

\* the UTF-8 bytes of a code point, and of a text
Utf8Bytes(c) ==
    IF c < 128 THEN <<c>>
    ELSE IF c < 2048 THEN <<192 + (c \div 64), 128 + (c % 64)>>
    ELSE IF c < 65536 THEN <<224 + (c \div 4096), 128 + ((c \div 64) % 64), 128 + (c % 64)>>
    ELSE <<240 + (c \div 262144), 128 + ((c \div 4096) % 64), 128 + ((c \div 64) % 64),
           128 + (c % 64)>>
RECURSIVE Utf8Encode(_)
Utf8Encode(t) == IF t = <<>> THEN <<>> ELSE Utf8Bytes(Head(t)) \o Utf8Encode(Tail(t))

\* every byte of b belongs to a well-formed UTF-8 sequence
IsValidUtf8(b) ==
    \A j \in 1..Len(b) :
        Utf8SeqLen(b, j) > 0 \/ \E i \in 1..(j - 1) : Utf8SeqLen(b, i) > j - i

\* C19 as stated: for every IV and every plaintext byte sequence, reveal of the
\* encoding returns the plaintext bytes
C19_RoundTripEveryPlaintext ==
    rev.rpc = "revealed" /\ ~rev.tampered =>
        rev.out.ok /\ Utf8Encode(rev.out.text) = rev.plain

\* C19 amended: for every IV and every plaintext that is well-formed UTF-8,
\* reveal of the encoding returns the text whose UTF-8 bytes are the plaintext,
\* whatever the length of the last block
C19_RoundTripUtf8Plaintext ==
    rev.rpc = "revealed" /\ ~rev.tampered /\ IsValidUtf8(rev.plain) =>
        rev.out.ok /\ Utf8Encode(rev.out.text) = rev.plain

\* a plaintext of two blocks and one byte, under an IV whose counter wraps
\* after the first block, has been revealed
C19_Witness ==
    /\ rev.rpc = "revealed" /\ ~rev.tampered
    /\ Len(rev.plain) = 2 * BlockSize + 1
    /\ \A k \in 9..16 : rev.iv[k] = 255
    /\ rev.out.ok /\ Utf8Encode(rev.out.text) = rev.plain

\* C20: reveal of an encoding whose plaintext is not well-formed UTF-8 returns
\* a text that holds the replacement character U+FFFD
C20_InvalidBytesBecomeReplacement ==
    rev.rpc = "revealed" /\ ~rev.tampered /\ ~IsValidUtf8(rev.plain) =>
        rev.out.ok /\ \E i \in 1..Len(rev.out.text) : rev.out.text[i] = 65533

----------------------------------------------------------------------------
(* get_remote_config *)

\* whether the search of lines 137-207 looks at a place at all
Considered(env, path) ==
    /\ path = "RCLONE_CONFIG" => env.RCLONE_CONFIG
    /\ path = "APPDATA/rclone/rclone.conf" => env.platform = "win32" /\ env.APPDATA
    /\ path = "XDG_CONFIG_HOME/rclone/rclone.conf" => env.XDG_CONFIG_HOME

\* the option names written in a store
KeysIn(content) ==
    IF content.kind # "file" THEN {}
    ELSE { Lower(content.lines[i].key) :
             i \in { j \in 1..Len(content.lines) : "key" \in DOMAIN content.lines[j] } }

\* the eight places as C21 lists them
ClaimedOrder ==
    << "RCLONE_CONFIG", "cwd/rclone.conf", "exe_dir/rclone.conf",
       "APPDATA/rclone/rclone.conf", "XDG_CONFIG_HOME/rclone/rclone.conf",
       "~/.config/rclone/rclone.conf", "~/.rclone.conf", "cwd/.rclone.conf" >>

StoredItems ==
    config_read(prof.fs[prof.out.config_path]).options[prof.remote_name]

\* the call got as far as reading the options of the requested section
ReadSection ==
    /\ prof.ppc = "returned"
    /\ prof.out.ok \/ prof.out.raised_at \in {"items", "pass"}

\* C22: when reveal refuses the pass value of the requested section, the call
\* raises the ValueError of line 243 and returns nothing; a returned mapping
\* holds every option of the section, and its pass is the text reveal
\* returned for the stored value.
C22_UndecodablePassFailsTheCall ==
    ReadSection =>
       LET items == StoredItems
           undecodable == { i \in 1..Len(items) :
                              /\ items[i].key = PassKey
                              /\ interpolate(items[i].value).raised = "none"
                              /\ ~reveal(interpolate(items[i].value).value).ok }
           unreadable == { i \in 1..Len(items) : interpolate(items[i].value).raised # "none" }
       IN  /\ (\E i \in undecodable : \A j \in unreadable : i < j)
                => /\ ~prof.out.ok
                   /\ prof.out.error = "ValueError" /\ prof.out.raised_at = "pass"
                   /\ "config_dict" \notin DOMAIN prof.out
           /\ prof.out.ok
                => /\ undecodable = {}
                   /\ DOMAIN prof.out.config_dict = { items[i].key : i \in 1..Len(items) }
                   /\ \A i \in 1..Len(items) :
                         items[i].key = PassKey
                            => prof.out.config_dict[PassKey]
                                  = reveal(interpolate(items[i].value).value).text

\* the remote s, whose pass is too short to be an obscured value, was asked
\* for and the call raised the error of line 243
C22_Witness ==
    /\ prof.ppc = "returned" /\ prof.remote_name = "s"
    /\ prof.out.config_path = "cwd/rclone.conf"
    /\ prof.fs["cwd/rclone.conf"] = PassStore
    /\ ~reveal(ShortPass).ok
    /\ ~prof.out.ok /\ prof.out.raised_at = "pass"

\* C23: a store that exists but cannot be opened or parsed gives the error
\* of line 229 (cannot read the file), and the error of line 233 (no such
\* remote) is given only for a store that was opened and parsed and has no
\* section of that name.
C23_UnreadableStoreIsFileError ==
    (prof.ppc = "returned" /\ prof.remote_name # "" /\ Exists(prof.fs, prof.out.config_path))
    => LET content == prof.fs[prof.out.config_path]
           readable == content.kind = "file" /\ config_read(content).raised = "none"
       IN  /\ ~readable => ("raised_at" \in DOMAIN prof.out /\ prof.out.raised_at = "read")
           /\ ("raised_at" \in DOMAIN prof.out /\ prof.out.raised_at = "section")
                 => readable /\ prof.remote_name \notin config_read(content).names

----------------------------------------------------------------------------
(* ensure_remote_directory_exists: the commands of one call *)

\* C24: the commands one ensure_remote_directory_exists call has issued are
\* always a prefix of (listing probe, creation command): at most one probe,
\* at most one creation, the creation only after the probe, nothing after the
\* creation; and the command the runner is executing for the call is the
\* last one issued.
C24_CommandsArePrefixOfProbeThenCreate ==
    ens.epc # "idle" =>
       /\ ens.issued \in { <<>>, <<"lsd">>, <<"lsd", "mkdir">> }
       /\ (caller = "ensure" /\ pc # "idle") =>
              ens.issued # <<>> /\ call.cmd = ens.issued[Len(ens.issued)]
       /\ ens.epc = "probing" => ens.issued = <<"lsd">>
       /\ ens.epc = "creating" => ens.issued = <<"lsd", "mkdir">>

\* a call whose creation command failed has returned False after one probe
\* and one creation
C24_Witness ==
    /\ ens.epc = "done" /\ ~ens.ret
    /\ ens.issued = <<"lsd", "mkdir">>
    /\ ~ens.mkdir.success

----------------------------------------------------------------------------
(* execute_rclone_command: capture and result *)

\* C25: when the result is built or has been returned, the capture is over:
\* the pipes are closed; a result that carries output was built after the
\* child had exited and all it wrote to stdout and stderr had been read;
\* after a timeout the child has been killed (or had exited) and what was
\* read is what it had written until then; a child still running belongs to
\* a call whose communicate() raised, and that call's result carries no
\* output.
C25_CaptureEndsBeforeResult ==
    pc \in {"build", "handler", "returned"} =>
       /\ child.open = {}
       /\ (pc = "build" \/ "stdout" \in DOMAIN result) =>
              /\ child.state = "exited" /\ ~hist.timed_out
              /\ hist.captured_out = child.out /\ hist.captured_err = child.err
              /\ locals.stdout = ConvertStdout(child.out)
              /\ locals.stderr_str = ConvertStderr(child.err)
       /\ hist.timed_out =>
              /\ hist.kill_called /\ child.state \in {"killed", "exited"}
              /\ hist.captured_out = WrittenOut /\ hist.captured_err = WrittenErr
       /\ child.state = "running" =>
              /\ hist.raised = "communicate"
              /\ pc = "returned" => DOMAIN result \cap {"stdout", "stderr", "stdout_lines"} = {}

\* a call has returned the output of a child that wrote on both streams
C25_Witness ==
    /\ pc = "returned" /\ "stdout" \in DOMAIN result
    /\ child.state = "exited" /\ child.out # <<>> /\ child.err # <<>>
    /\ hist.captured_out = child.out /\ hist.captured_err = child.err

----------------------------------------------------------------------------
(* Concurrent callers *)

----------------------------------------------------------------------------
(* reveal: the counter blocks *)

\* pairwise coprime moduli whose product exceeds 2^65: a number below 2^64
\* is determined by its residues
Moduli == {65521, 65519, 65497, 65479, 65449}

\* the residue modulo m of the number whose big-endian bytes are b
BigEndianMod(b, m) ==
    LET acc[k \in 0..Len(b)] == IF k = 0 THEN 0 ELSE ((acc[k - 1] * 256) + b[k]) % m
    IN  acc[Len(b)]

\* the IV reveal takes from the decoded string, and the number of blocks of
\* the data after it
DecodedIv == SubSeq(urlsafe_b64decode(padded_value(rev.obscured)).bytes, 1, BlockSize)
DecodedBlocks ==
    (Len(urlsafe_b64decode(padded_value(rev.obscured)).bytes) - 1) \div BlockSize

\* C27: for every block index i of a decoded string, the counter block is the
\* first 8 IV bytes unchanged followed by 8 bytes whose big-endian value is
\* (initial_counter + i) mod 2^64, initial_counter being the big-endian value
\* of the last 8 IV bytes: with or without one subtraction of 2^64 the value
\* agrees with initial_counter + i modulo every modulus.
C27_CounterBlockIsNonceThenCounter ==
    (rev.rpc = "revealed" /\ rev.out.ok) =>
       \A i \in 0..(DecodedBlocks - 1) :
          LET block == counter_block(DecodedIv, i)
          IN  /\ Len(block) = BlockSize
              /\ SubSeq(block, 1, 8) = SubSeq(DecodedIv, 1, 8)
              /\ \E wrapped \in {0, 1} :
                    \A m \in Moduli :
                       BigEndianMod(SubSeq(block, 9, 16), m)
                          = (BigEndianMod(SubSeq(DecodedIv, 9, 16), m) + i
                             + wrapped * (m - BigEndianMod(<<1, 0, 0, 0, 0, 0, 0, 0, 0>>, m))) % m

\* a string of three blocks whose IV ends in eight 0xFF bytes has been
\* revealed: the counter of the second block is zero and the nonce is kept
C27_Witness ==
    /\ rev.rpc = "revealed" /\ rev.out.ok /\ ~rev.tampered
    /\ DecodedIv = rev.iv /\ DecodedBlocks = 3
    /\ \A k \in 9..16 : rev.iv[k] = 255
    /\ counter_block(rev.iv, 1) = SubSeq(rev.iv, 1, 8) \o <<0, 0, 0, 0, 0, 0, 0, 0>>
    /\ counter_block(rev.iv, 2) = SubSeq(rev.iv, 1, 8) \o <<0, 0, 0, 0, 0, 0, 0, 1>>

----------------------------------------------------------------------------
(* execute_rclone_command: the precondition checks *)

\* C30: a call with an empty remote_host_name, or with an rclone_exe_path that
\* is given and does not exist, returns in one step a result with success
\* False, starts no child, and leaves the log-once flag as it was.
C30_RejectedCallSpawnsNothing ==
    [][(pc = "start" /\ (~call.host_set \/ call.exe = "missing"))
          => /\ pc' = "returned"
             /\ result'.success = FALSE /\ "exit_code" \notin DOMAIN result'
             /\ child' = NoChild /\ hist'.popen_calls = 0 /\ hist'.spawned = 0
             /\ diagnostics_logged' = diagnostics_logged]_vars

\* a call with a host name and an executable path that does not exist has
\* returned, no call before it got past the checks, and the flag is unset
C30_Witness ==
    /\ pc = "returned" /\ call.host_set /\ call.exe = "missing"
    /\ result.success = FALSE
    /\ child = NoChild /\ hist.popen_calls = 0
    /\ ~diagnostics_logged

----------------------------------------------------------------------------
(* sync_directory and upload_file: no transfer without the directory *)

\* C28: while the transfer command (rclone sync, rclone copyto) of
\* sync_directory or upload_file runs or has run, the call of
\* ensure_remote_directory_exists before it returned True, or the tool is
\* upload_file with a remote path without a directory part; a tool whose
\* ensure_remote_directory_exists call returned False has returned an error
\* and has issued the probe and at most the creation command, nothing else.
C28_NoTransferUnlessEnsured ==
    ("name" \in DOMAIN tool) =>
       /\ (\/ tool.tpc = "transferring"
           \/ caller = "transfer"
           \/ (pc # "idle" /\ call.cmd \in {"sync", "copyto"})
           \/ \E i \in 1..Len(tool.issued) : tool.issued[i] \in {"sync", "copyto"})
             => \/ tool.ensured = "true" /\ tool.has_dir
                \/ tool.ensured = "skipped" /\ tool.name = "upload_file" /\ ~tool.has_dir
       /\ tool.ensured = "false"
             => /\ tool.tpc = "done" /\ "error" \in DOMAIN tool.ret
                /\ "success" \notin DOMAIN tool.ret
                /\ tool.issued \in { <<"lsd">>, <<"lsd", "mkdir">> }
                /\ pc = "idle" /\ caller = "none"
       /\ tool.tpc = "ensuring" => ens.epc # "idle" /\ (pc # "idle" => call.cmd \in {"lsd", "mkdir"})

\* sync_directory has returned an error after a failed creation command,
\* without a transfer
C28_Witness ==
    /\ "name" \in DOMAIN tool /\ tool.name = "sync_directory"
    /\ tool.tpc = "done" /\ tool.ensured = "false"
    /\ tool.issued = <<"lsd", "mkdir">>
    /\ "error" \in DOMAIN tool.ret
====
